---- MODULE Spec2Model ----
(***************************************************************************)
(* A model of the local Supermemory server (src/server.js): the two        *)
(* SQLite tables, the request handlers that write them, the read handlers  *)
(* as operators over the tables, and the text functions (tokenize,         *)
(* computeSimilarity, extractFacts) computed character by character.       *)
(***************************************************************************)
EXTENDS Integers, Sequences, FiniteSets, TLC

(***************************************************************************)
(* Text.  A JavaScript string is a sequence of one-character strings.      *)
(***************************************************************************)
UpperCase == <<"A", "B", "C", "D", "E", "F", "G", "H", "I", "J", "K", "L", "M", "N", "O", "P", "Q", "R", "S", "T", "U", "V", "W", "X", "Y", "Z">>

LowerCase == <<"a", "b", "c", "d", "e", "f", "g", "h", "i", "j", "k", "l", "m", "n", "o", "p", "q", "r", "s", "t", "u", "v", "w", "x", "y", "z">>

Digits == {"0", "1", "2", "3", "4", "5", "6", "7", "8", "9"}

Range(s) == {s[i] : i \in 1..Len(s)}

\* String.prototype.toLowerCase on one character (ASCII).
LowerChar(c) ==
    IF c \in Range(UpperCase)
    THEN LowerCase[CHOOSE i \in 1..Len(UpperCase) : UpperCase[i] = c]
    ELSE c

toLowerCase(s) == [i \in 1..Len(s) |-> LowerChar(s[i])]

\* The regular expression class \w: [A-Za-z0-9_].
IsWordChar(c) == c \in Range(UpperCase) \cup Range(LowerCase) \cup Digits \cup {"_"}

\* The regular expression class \s (the whitespace the inputs can hold).
WhiteSpace == {" ", "\t", "\n"}

IsSpace(c) == c \in WhiteSpace

\* The maximal runs of characters of s that are not separators, in order:
\* what String.prototype.split leaves on a separator class with a + after
\* its empty strings are dropped.
RECURSIVE Runs(_, _, _, _)
Runs(s, i, cur, seps) ==
    IF i > Len(s)
    THEN IF cur = <<>> THEN <<>> ELSE <<cur>>
    ELSE IF s[i] \in seps
         THEN (IF cur = <<>> THEN <<>> ELSE <<cur>>) \o Runs(s, i + 1, <<>>, seps)
         ELSE Runs(s, i + 1, Append(cur, s[i]), seps)

\* .filter(t => t.length > 2)
LongEnough(t) == Len(t) > 2

\* tokenize: lower-case, every character outside \w and \s becomes a space,
\* split on runs of whitespace, keep the terms longer than 2.
tokenize(text) ==
    LET lowered == toLowerCase(text)
        spaced == [i \in 1..Len(lowered) |->
                     IF IsWordChar(lowered[i]) \/ IsSpace(lowered[i])
                     THEN lowered[i] ELSE " "]
    IN SelectSeq(Runs(spaced, 1, <<>>, WhiteSpace), LongEnough)

\* String.prototype.includes
Includes(hay, needle) ==
    \E i \in 0..(Len(hay) - Len(needle)) :
        SubSeq(hay, i + 1, i + Len(needle)) = needle

\* A similarity score min(1, matches / sqrt(norm) + boost / 100), kept as
\* its exact parts: norm = |query terms| * |content terms|, boost 0 or 30.
ZeroScore == [matches |-> 0, norm |-> 1, boost |-> 0]

\* computeSimilarity without the boost for an exact phrase match.
computeSimilarityNoBoost(query, content) ==
    LET queryTokens == Range(tokenize(query))
        contentTokens == tokenize(content)
        matches == Cardinality({i \in 1..Len(contentTokens) :
                                   contentTokens[i] \in queryTokens})
    IN IF Cardinality(queryTokens) = 0 \/ Len(contentTokens) = 0
       THEN ZeroScore
       ELSE [matches |-> matches,
             norm |-> Cardinality(queryTokens) * Len(contentTokens),
             boost |-> 0]

\* computeSimilarity with the phrase boost added before the test for empty
\* token sets.
computeSimilarityBoostFirst(query, content) ==
    LET queryTokens == Range(tokenize(query))
        contentTokens == tokenize(content)
        matches == Cardinality({i \in 1..Len(contentTokens) :
                                   contentTokens[i] \in queryTokens})
        exactBoost == IF Includes(toLowerCase(content), toLowerCase(query))
                      THEN 30 ELSE 0
    IN IF Cardinality(queryTokens) = 0 \/ Len(contentTokens) = 0
       THEN [matches |-> 0, norm |-> 1, boost |-> exactBoost]
       ELSE [matches |-> matches,
             norm |-> Cardinality(queryTokens) * Len(contentTokens),
             boost |-> exactBoost]

computeSimilarity(query, content) ==
    LET queryTokens == Range(tokenize(query))
        contentTokens == tokenize(content)
        matches == Cardinality({i \in 1..Len(contentTokens) :
                                   contentTokens[i] \in queryTokens})
        exactBoost == IF Includes(toLowerCase(content), toLowerCase(query))
                      THEN 30 ELSE 0
    IN IF Cardinality(queryTokens) = 0 \/ Len(contentTokens) = 0
       THEN ZeroScore
       ELSE [matches |-> matches,
             norm |-> Cardinality(queryTokens) * Len(contentTokens),
             boost |-> exactBoost]

\* Exceeds with the comparison turned around: score < t / 100.
ExceedsInverted(score, t) ==
    IF t - score.boost <= 0 THEN FALSE
    ELSE 10000 * score.matches * score.matches
            < (t - score.boost) * (t - score.boost) * score.norm

\* score > t / 100, exactly: the score is at most 1, and below 1 it is
\* matches / sqrt(norm) + boost / 100.
Exceeds(score, t) ==
    IF t >= 100 THEN FALSE
    ELSE IF t - score.boost < 0 THEN TRUE
    ELSE 10000 * score.matches * score.matches
            > (t - score.boost) * (t - score.boost) * score.norm

\* String.prototype.trim
RECURSIVE TrimLeft(_)
TrimLeft(s) == IF s # <<>> /\ IsSpace(Head(s)) THEN TrimLeft(Tail(s)) ELSE s

RECURSIVE TrimRight(_)
TrimRight(s) ==
    IF s # <<>> /\ IsSpace(s[Len(s)]) THEN TrimRight(SubSeq(s, 1, Len(s) - 1)) ELSE s

trim(s) == TrimRight(TrimLeft(s))

\* The separator class [.!?] of content.split(/[.!?]+/).
SentenceEnds == {".", "!", "?"}

\* preferencePatterns: each pattern is a prefix followed by one of its
\* alternatives, matched anywhere in the subject, ignoring case.
preferencePatterns ==
    << {<<"i", " ", "p", "r", "e", "f", "e", "r">>, <<"i", " ", "l", "i", "k", "e">>, <<"i", " ", "l", "o", "v", "e">>, <<"i", " ", "w", "a", "n", "t">>, <<"i", " ", "n", "e", "e", "d">>, <<"i", " ", "u", "s", "e">>},
       {<<"m", "y", " ", "f", "a", "v", "o", "r", "i", "t", "e">>, <<"m", "y", " ", "p", "r", "e", "f", "e", "r", "r", "e", "d">>, <<"m", "y", " ", "d", "e", "f", "a", "u", "l", "t">>},
       {<<"i", " ", "a", "l", "w", "a", "y", "s">>, <<"i", " ", "n", "e", "v", "e", "r">>, <<"i", " ", "u", "s", "u", "a", "l", "l", "y">>, <<"i", " ", "o", "f", "t", "e", "n">>},
       {<<"r", "e", "m", "e", "m", "b", "e", "r", " ", "t", "h", "a", "t">>, <<"r", "e", "m", "e", "m", "b", "e", "r", " ", "t", "o">>} >>

\* pattern.test(trimmed) for a pattern with the i flag.
PatternTest(pattern, subject) ==
    \E alt \in pattern : Includes(toLowerCase(subject), alt)

\* The inner loop without the break: one push per pattern that matches.
RECURSIVE FactsOfSentenceNoBreak(_, _)
FactsOfSentenceNoBreak(trimmed, p) ==
    IF p > Len(preferencePatterns) THEN <<>>
    ELSE (IF PatternTest(preferencePatterns[p], trimmed) THEN <<trimmed>> ELSE <<>>)
            \o FactsOfSentenceNoBreak(trimmed, p + 1)

\* The inner loop over the patterns from index p: push once and break.
RECURSIVE FactsOfSentence(_, _)
FactsOfSentence(trimmed, p) ==
    IF p > Len(preferencePatterns) THEN <<>>
    ELSE IF PatternTest(preferencePatterns[p], trimmed) THEN <<trimmed>>
    ELSE FactsOfSentence(trimmed, p + 1)

\* .filter(s => s.trim().length > 10)
IsSentence(s) == Len(trim(s)) > 10

RECURSIVE FactsOfSentences(_)
FactsOfSentences(sentences) ==
    IF sentences = <<>> THEN <<>>
    ELSE FactsOfSentence(trim(Head(sentences)), 1) \o FactsOfSentences(Tail(sentences))

extractFacts(content) ==
    FactsOfSentences(SelectSeq(Runs(content, 1, <<>>, SentenceEnds), IsSentence))


(***************************************************************************)
(* JavaScript values of a request body.                                    *)
(***************************************************************************)
Undefined == [type |-> "undefined"]

JsString(s) == [type |-> "string", v |-> s]

JsArray(a) == [type |-> "array", v |-> a]

JsNumber(n) == [type |-> "number", v |-> n]

\* ToBoolean on the values above: undefined, "" and 0 are falsy.
Truthy(x) ==
    \/ x.type = "array"
    \/ x.type = "string" /\ x.v # <<>>
    \/ x.type = "number" /\ x.v # 0

\* Array.isArray
IsArray(x) == x.type = "array"

(***************************************************************************)
(* The texts, tags and bounds of the model.                                *)
(***************************************************************************)
TeaPreference == <<"I", " ", "p", "r", "e", "f", "e", "r", " ", "t", "e", "a", ".">>

TeaAndVim == <<"I", " ", "p", "r", "e", "f", "e", "r", " ", "t", "e", "a", "!", " ", "I", " ", "a", "l", "w", "a", "y", "s", " ", "u", "s", "e", " ", "V", "i", "m">>

GreenTea == <<"G", "r", "e", "e", "n", " ", "T", "e", "a">>

ToDo == <<"t", "o", " ", "d", "o">>

Teapot == <<"T", "e", "a", "p", "o", "t">>

\* I use Vim. Green tea is good? I like my default tea
VimAndTea == <<"I", " ", "u", "s", "e", " ", "V", "i", "m", ".", " ", "G", "r", "e", "e", "n", " ", "t", "e", "a", " ", "i", "s", " ", "g", "o", "o", "d", "?", " ", "I", " ", "l", "i", "k", "e", " ", "m", "y", " ", "d", "e", "f", "a", "u", "l", "t", " ", "t", "e", "a">>

\* Every text the model computes on.
AllTexts ==
    {<<>>, TeaPreference, TeaAndVim, GreenTea, ToDo, Teapot, VimAndTea}

\* The contents the requests add: texts without a fact in them (Spec), and
\* a text with one (SpecProfile).
ContentTexts == {GreenTea, ToDo}

ProfileTexts == {TeaPreference}

\* Two texts a query occurs in, one as a word and one inside a word
\* (SpecRoundTrip).
RoundTripTexts == {GreenTea, Teapot}

\* A text without a term, and a text whose one term has the queries inside
\* it (SpecScoring).
ScoringTexts == {ToDo, Teapot}

\* Texts with zero, one and two facts in them, with a segment that is too
\* short, one that matches no pattern and one that matches two
\* (SpecExtraction).
ExtractionTexts == {GreenTea, TeaPreference, TeaAndVim, VimAndTea}

\* A text with two facts in it (SpecStorageFailure).
StorageFailureTexts == {TeaAndVim}

QueryTea == <<"t", "e", "a">>

QueryVimTea == <<"V", "i", "m", " ", "t", "e", "a">>

QueryTo == <<"t", "o">>

QueryTexts == {QueryTea, QueryVimTea, QueryTo}

\* A query without a term that occurs inside the term of a text.
QueryEa == <<"e", "a">>

\* Every query the model scores.
ScoredQueries == QueryTexts \cup {QueryEa}

DefaultTag == <<"d", "e", "f", "a", "u", "l", "t">>

WorkTag == <<"w", "o", "r", "k">>

Tags == {DefaultTag, WorkTag}

\* Bounds of the model: memories added, clock readings, ids in one
\* deleteBulk request, and the limit of a list or search request.
MaxAdds == 2

MaxTime == 1

MaxIdsLen == 2

MaxLimit == 2

\* forgotten_at TEXT: NULL until the memory is forgotten.
NULL == -1

DigitChars == <<"1", "2", "3", "4", "5", "6", "7", "8", "9">>

\* uuidv4(): the identifier generated after n others; never one of them.
generateId(n) == <<"m", DigitChars[n + 1]>>

\* An id no memory was ever given.
UnknownId == <<"x">>

ContentMatch == <<"c", "o", "n", "t", "e", "n", "t", "-", "m", "a", "t", "c", "h">>

\* Computed once: the text functions on the texts of the model.
SimilarityTable ==
    [q \in ScoredQueries |-> [c \in AllTexts |-> computeSimilarity(q, c)]]

FactsTable == [c \in AllTexts |-> extractFacts(c)]

FactTexts == UNION {Range(FactsTable[c]) : c \in AllTexts}

\* A response: the HTTP status and the JSON body.
Response(status, body) == [status |-> status, body |-> body]

Error(status, message) == Response(status, [error |-> message])

(***************************************************************************)
(* State: the two tables, the ids handed out and the clock.  A handler     *)
(* runs from its request to its response without another in between        *)
(* (better-sqlite3 is synchronous), so a handler is one step: its outcome  *)
(* is the tables it leaves and the response it sends.                      *)
(***************************************************************************)
VARIABLES
    memories,       \* table memories, in rowid order
    profile_facts,  \* table profile_facts, in rowid order
    generated,      \* how many memory ids generateId has handed out
    now,            \* the clock new Date() reads
    serverUp,       \* the server is listening: a fetch reaches it
    registration,   \* the plugin's register and its health check
    call            \* the tool call the agent runtime has made last

\* The plugin side: what the store's handlers never touch.
clientVars == <<serverUp, registration, call>>

vars == <<memories, profile_facts, generated, now, serverUp, registration, call>>

\* No tool call yet.
NoCall ==
    [tool |-> "", at |-> "idle", query |-> Undefined, tag |-> <<>>,
     target |-> <<>>, error |-> "", method |-> "", success |-> FALSE]

Init ==
    /\ memories = <<>>
    /\ profile_facts = <<>>
    /\ generated = 0
    /\ now = 0
    /\ serverUp = TRUE
    /\ registration = "none"
    /\ call = NoCall

\* A stable sort: before is a strict weak order, as the set of pairs
\* <<a, b>> with a before b; rows it does not order keep their order in s.
StableSort(s, before) ==
    LET rank == [i \in 1..Len(s) |->
                    1 + Cardinality({j \in 1..Len(s) :
                        \/ <<s[j], s[i]>> \in before
                        \/ <<s[i], s[j]>> \notin before /\ j < i})]
    IN IF Len(s) <= 1 THEN s
       ELSE [k \in 1..Len(s) |-> s[CHOOSE i \in 1..Len(s) : rank[i] = k]]

\* LIMIT n OFFSET o, and Array.prototype.slice(o, o + n)
Slice(s, o, n) ==
    SubSeq(s, o + 1, IF o + n < Len(s) THEN o + n ELSE Len(s))

\* containerTag || containerTags?.[0] || 'default'
ResolveTag(containerTag, containerTags) ==
    IF Truthy(containerTag) THEN containerTag.v
    ELSE IF IsArray(containerTags) /\ Len(containerTags.v) > 0
         THEN containerTags.v[1]
         ELSE DefaultTag

(***************************************************************************)
(* POST /api/v1/add                                                        *)
(***************************************************************************)
\* AddRejects that takes the empty string for content.
AddRejectsMissing(content) == content = Undefined

\* if (!content) return 400
AddRejects(content) == ~Truthy(content)

\* INSERT INTO memories
InsertMemory(id, tag, content) ==
    Append(memories, [id |-> id, container_tag |-> tag, content |-> content,
                      \* metadata ? JSON.stringify(metadata) : null, and
                      \* customId || null: the requests carry neither
                      metadata |-> NULL, custom_id |-> NULL,
                      created_at |-> now, forgotten_at |-> NULL])

\* An insert that skips a fact the container already has a row for.
InsertFactsDeduplicated(tag, facts) ==
    LET known(f) == \E j \in 1..Len(profile_facts) :
                        /\ profile_facts[j].container_tag = tag
                        /\ profile_facts[j].fact = f
        fresh(f) == ~known(f)
        new == SelectSeq(facts, fresh)
    IN profile_facts \o [i \in 1..Len(new) |->
           [container_tag |-> tag, fact |-> new[i],
            fact_type |-> "dynamic", updated_at |-> now]]

\* INSERT INTO profile_facts, once per extracted fact
InsertFacts(tag, facts) ==
    profile_facts \o [i \in 1..Len(facts) |->
        [container_tag |-> tag, fact |-> facts[i],
         fact_type |-> "dynamic", updated_at |-> now]]

AddOutcome(content, containerTag, containerTags) ==
    LET tag == ResolveTag(containerTag, containerTags)
        id == generateId(generated)
    IN IF AddRejects(content)
       THEN [memories |-> memories, profile_facts |-> profile_facts,
             generated |-> generated,
             response |-> Error(400, "Content is required")]
       ELSE [memories |-> InsertMemory(id, tag, content.v),
             profile_facts |-> InsertFacts(tag, FactsTable[content.v]),
             generated |-> generated + 1,
             response |-> Response(200, [id |-> id, created |-> TRUE])]

\* An add whose failure undoes the rows it has written.
AddFailureOutcomeRolledBack(content, containerTag, containerTags, k) ==
    [memories |-> memories, profile_facts |-> profile_facts,
     generated |-> generated + 1,
     response |-> Error(500, "SqliteError")]

\* The add of a content with facts whose k-th factStmt.run throws: the
\* statements before it have run, each in its own implicit transaction, and
\* the catch answers 500 with the error's message.
AddFailureOutcome(content, containerTag, containerTags, k) ==
    LET tag == ResolveTag(containerTag, containerTags)
        id == generateId(generated)
    IN [memories |-> InsertMemory(id, tag, content.v),
        profile_facts |-> InsertFacts(tag, SubSeq(FactsTable[content.v], 1, k - 1)),
        generated |-> generated + 1,
        response |-> Error(500, "SqliteError")]

AddResponse(content, containerTag, containerTags) ==
    AddOutcome(content, containerTag, containerTags).response

Add(content, containerTag, containerTags) ==
    LET out == AddOutcome(content, containerTag, containerTags)
    IN /\ out.generated <= MaxAdds
       /\ memories' = out.memories
       /\ profile_facts' = out.profile_facts
       /\ generated' = out.generated
       /\ UNCHANGED <<now, clientVars>>

\* The add fails at its k-th fact.
AddFailing(content, containerTag, containerTags, k) ==
    LET out == AddFailureOutcome(content, containerTag, containerTags, k)
    IN /\ ~AddRejects(content)
       /\ k \in 1..Len(FactsTable[content.v])
       /\ out.generated <= MaxAdds
       /\ memories' = out.memories
       /\ profile_facts' = out.profile_facts
       /\ generated' = out.generated
       /\ UNCHANGED <<now, clientVars>>

(***************************************************************************)
(* POST /api/v1/memories/forget                                            *)
(***************************************************************************)
\* UPDATE memories SET forgotten_at = ? WHERE id = ? AND container_tag = ?
\* ForgetByIdMatches without the container_tag condition.
ForgetByIdMatchesAnyTag(m, id, tag) == m.id = id

ForgetByIdMatches(m, id, tag) == m.id = id /\ m.container_tag = tag

\* ForgetByContentMatches without the container_tag condition.
ForgetByContentMatchesAnyTag(m, content, tag) ==
    m.content = content /\ m.forgotten_at = NULL

\* ... WHERE content = ? AND container_tag = ? AND forgotten_at IS NULL
ForgetByContentMatches(m, content, tag) ==
    m.content = content /\ m.container_tag = tag /\ m.forgotten_at = NULL

\* A forget that sets created_at as well.
MarkForgottenAndCreated(m) == [m EXCEPT !.forgotten_at = now, !.created_at = now]

\* A forget that makes a forgotten memory active again.
MarkForgottenOrActive(m) ==
    [m EXCEPT !.forgotten_at = IF m.forgotten_at = NULL THEN now ELSE NULL]

\* SET forgotten_at = new Date().toISOString()
MarkForgotten(m) == [m EXCEPT !.forgotten_at = now]

\* res.json({ id, forgotten: true }): the id branch does not read changes
ForgetByIdResponse(id, changes) == Response(200, [id |-> id, forgotten |-> TRUE])

\* res.json({ id: 'content-match', forgotten: result.changes > 0 })
ForgetByContentResponse(changes) ==
    Response(200, [id |-> ContentMatch, forgotten |-> changes > 0])

\* ForgetBranch that looks at content first.
ForgetBranchContentFirst(id, content) ==
    IF Truthy(content) THEN "content" ELSE IF Truthy(id) THEN "id" ELSE "neither"

\* if (id) ... else if (content) ... else 400
ForgetBranch(id, content) ==
    IF Truthy(id) THEN "id" ELSE IF Truthy(content) THEN "content" ELSE "neither"

ForgetOutcome(containerTag, id, content) ==
    LET branch == ForgetBranch(id, content)
        byId(m) == ForgetByIdMatches(m, id.v, containerTag.v)
        byContent(m) == ForgetByContentMatches(m, content.v, containerTag.v)
    IN IF branch = "neither"
       THEN [memories |-> memories,
             response |-> Error(400, "Either id or content is required")]
       ELSE IF containerTag = Undefined
       THEN \* stmt.run(..., undefined): better-sqlite3 binds no undefined
            \* and throws a TypeError, which the handler answers with 500
            [memories |-> memories, response |-> Error(500, "TypeError")]
       ELSE IF branch = "id"
       THEN [memories |-> [i \in 1..Len(memories) |->
                            IF byId(memories[i]) THEN MarkForgotten(memories[i])
                            ELSE memories[i]],
             response |-> ForgetByIdResponse(id.v, Len(SelectSeq(memories, byId)))]
       ELSE [memories |-> [i \in 1..Len(memories) |->
                            IF byContent(memories[i]) THEN MarkForgotten(memories[i])
                            ELSE memories[i]],
             response |-> ForgetByContentResponse(Len(SelectSeq(memories, byContent)))]

ForgetResponse(containerTag, id, content) ==
    ForgetOutcome(containerTag, id, content).response

\* The fact rows after the handler: both branches run one UPDATE on
\* memories and no statement on profile_facts.
ForgetProfileFacts(containerTag, id, content) == profile_facts

Forget(containerTag, id, content) ==
    /\ memories' = ForgetOutcome(containerTag, id, content).memories
    /\ profile_facts' = ForgetProfileFacts(containerTag, id, content)
    /\ UNCHANGED <<generated, now, clientVars>>

(***************************************************************************)
(* POST /api/v1/documents/deleteBulk                                       *)
(***************************************************************************)
\* DeleteBulkRejects without the Array.isArray test.
DeleteBulkRejectsMissing(ids) == ~Truthy(ids)

\* if (!ids || !Array.isArray(ids)) return 400
DeleteBulkRejects(ids) == ~Truthy(ids) \/ ~IsArray(ids)

\* DeleteBulkMatches that passes over forgotten memories.
DeleteBulkMatchesActive(m, ids) == m.id \in Range(ids) /\ m.forgotten_at = NULL

\* DELETE FROM memories WHERE id IN (ids); SQLite takes an empty list
DeleteBulkMatches(m, ids) == m.id \in Range(ids)

DeleteBulkOutcome(ids) ==
    LET hit(m) == DeleteBulkMatches(m, ids.v)
        keep(m) == ~hit(m)
    IN IF DeleteBulkRejects(ids)
       THEN [memories |-> memories,
             response |-> Error(400, "ids array is required")]
       ELSE [memories |-> SelectSeq(memories, keep),
             response |-> Response(200, [deleted |-> Len(SelectSeq(memories, hit))])]

DeleteBulkResponse(ids) == DeleteBulkOutcome(ids).response

\* A deleteBulk that also deletes the facts of the containers of the
\* memories it removes.
DeleteBulkProfileFactsCascading(ids) ==
    LET removed == {memories[i].container_tag :
                      i \in {k \in 1..Len(memories) : memories[k].id \in Range(ids.v)}}
        keepFact(f) == f.container_tag \notin removed
    IN IF IsArray(ids) THEN SelectSeq(profile_facts, keepFact) ELSE profile_facts

\* The fact rows after the handler: it runs one DELETE on memories and no
\* statement on profile_facts.
DeleteBulkProfileFacts(ids) == profile_facts

DeleteBulk(ids) ==
    /\ memories' = DeleteBulkOutcome(ids).memories
    /\ profile_facts' = DeleteBulkProfileFacts(ids)
    /\ UNCHANGED <<generated, now, clientVars>>

(***************************************************************************)
(* POST /api/v1/profile/promote                                            *)
(***************************************************************************)
\* PromoteMatches without the container_tag condition.
PromoteMatchesAnyTag(f, tag, fact) == f.fact = fact

\* UPDATE profile_facts ... WHERE container_tag = ? AND fact = ?
PromoteMatches(f, tag, fact) == f.container_tag = tag /\ f.fact = fact

\* PromoteRow that refreshes updated_at only.
PromoteRowKeepsType(f) == [f EXCEPT !.updated_at = now]

\* SET fact_type = 'static', updated_at = new Date().toISOString()
PromoteRow(f) == [f EXCEPT !.fact_type = "static", !.updated_at = now]

\* A promote whose UPDATE reaches the newest matching row only.
PromoteOutcomeNewestOnly(containerTag, fact) ==
    LET hit(f) == PromoteMatches(f, containerTag.v, fact.v)
        hits == {i \in 1..Len(profile_facts) : hit(profile_facts[i])}
        newest(i) == i \in hits /\ \A j \in hits : j <= i
    IN IF containerTag = Undefined \/ fact = Undefined
       THEN [profile_facts |-> profile_facts, response |-> Error(500, "TypeError")]
       ELSE [profile_facts |-> [i \in 1..Len(profile_facts) |->
                                 IF newest(i) THEN PromoteRow(profile_facts[i])
                                 ELSE profile_facts[i]],
             response |-> Response(200, [promoted |-> hits # {}])]

PromoteOutcome(containerTag, fact) ==
    LET hit(f) == PromoteMatches(f, containerTag.v, fact.v)
    IN IF containerTag = Undefined \/ fact = Undefined
       THEN \* stmt.run(..., undefined): TypeError, answered with 500
            [profile_facts |-> profile_facts, response |-> Error(500, "TypeError")]
       ELSE [profile_facts |-> [i \in 1..Len(profile_facts) |->
                                 IF hit(profile_facts[i]) THEN PromoteRow(profile_facts[i])
                                 ELSE profile_facts[i]],
             response |-> Response(200,
                 [promoted |-> Len(SelectSeq(profile_facts, hit)) > 0])]

PromoteResponse(containerTag, fact) == PromoteOutcome(containerTag, fact).response

Promote(containerTag, fact) ==
    /\ profile_facts' = PromoteOutcome(containerTag, fact).profile_facts
    /\ UNCHANGED <<memories, generated, now, clientVars>>

(***************************************************************************)
(* DELETE /api/v1/container/:tag                                           *)
(***************************************************************************)
\* WipeOutcome that deletes the memories only.
WipeOutcomeMemoriesOnly(tag) ==
    LET keepMemory(m) == m.container_tag # tag
    IN [memories |-> SelectSeq(memories, keepMemory),
        profile_facts |-> profile_facts,
        response |-> Response(200, [wiped |-> TRUE, containerTag |-> tag])]

WipeOutcome(tag) ==
    LET keepMemory(m) == m.container_tag # tag
        keepFact(f) == f.container_tag # tag
    IN [memories |-> SelectSeq(memories, keepMemory),
        profile_facts |-> SelectSeq(profile_facts, keepFact),
        response |-> Response(200, [wiped |-> TRUE, containerTag |-> tag])]

Wipe(tag) ==
    /\ memories' = WipeOutcome(tag).memories
    /\ profile_facts' = WipeOutcome(tag).profile_facts
    /\ UNCHANGED <<generated, now, clientVars>>

\* Time passes between two requests (new Date() has millisecond resolution:
\* two requests may also read the same time).
Tick ==
    /\ now < MaxTime
    /\ now' = now + 1
    /\ UNCHANGED <<memories, profile_facts, generated, clientVars>>

(***************************************************************************)
(* The read handlers, as operators over the tables.                        *)
(***************************************************************************)
\* ORDER BY created_at DESC: SQLite sorts stably, rows of one created_at
\* stay in rowid order.
OrderByCreatedDesc(rows) ==
    LET before == {ab \in Range(rows) \X Range(rows) :
                      ab[1].created_at > ab[2].created_at}
    IN StableSort(rows, before)

\* ActiveMemories without the container_tag filter.
ActiveMemoriesAnyTag(tags) ==
    LET cond(m) == m.forgotten_at = NULL
    IN OrderByCreatedDesc(SelectSeq(memories, cond))

\* ActiveMemories without the forgotten_at filter.
ActiveMemoriesAndForgotten(tags) ==
    LET cond(m) == m.container_tag \in tags
    IN OrderByCreatedDesc(SelectSeq(memories, cond))

\* WHERE container_tag IN (tags) AND forgotten_at IS NULL
\* ORDER BY created_at DESC
ActiveMemories(tags) ==
    LET cond(m) == m.container_tag \in tags /\ m.forgotten_at = NULL
    IN OrderByCreatedDesc(SelectSeq(memories, cond))

\* a.similarity < b.similarity for two scores min(1, m / sqrt(n) + b / 100),
\* exactly, by squaring.
ReachesOne(s) ==
    10000 * s.matches * s.matches >= (100 - s.boost) * (100 - s.boost) * s.norm

\* m1/sqrt(n1) - m2/sqrt(n2) < d/100 for d in {-30, 0, 30}
BaseDiffBelow(s1, s2, d) ==
    LET aLessB == s1.matches * s1.matches * s2.norm < s2.matches * s2.matches * s1.norm
        bLessA == s2.matches * s2.matches * s1.norm < s1.matches * s1.matches * s2.norm
        \* L = A^2 + B^2 - (d/100)^2 over the denominator 10000 * n1 * n2
        den == 10000 * s1.norm * s2.norm
        lnum == 10000 * (s1.matches * s1.matches * s2.norm
                         + s2.matches * s2.matches * s1.norm)
                - d * d * s1.norm * s2.norm
        \* (2AB)^2 = 4 m1^2 m2^2 / (n1 n2), over den^2
        rhs == 4 * s1.matches * s1.matches * s2.matches * s2.matches
                 * 10000 * 10000 * s1.norm * s2.norm
    IN IF d = 0 THEN aLessB
       ELSE IF d > 0
       THEN \* A < B + d/100
            ~bLessA \/ lnum < 0 \/ lnum * lnum < rhs
       ELSE \* B - A > |d|/100
            aLessB /\ lnum > 0 /\ lnum * lnum > rhs

ScoreLess(s1, s2) ==
    /\ ~ReachesOne(s1)
    /\ BaseDiffBelow(s1, s2, s2.boost - s1.boost)

\* .sort((a, b) => b.similarity - a.similarity): stable, descending
\* A sort by similarity, lowest first.
SortBySimilarityAsc(results) ==
    LET before == {ab \in Range(results) \X Range(results) :
                      ScoreLess(ab[1].similarity, ab[2].similarity)}
    IN StableSort(results, before)

SortBySimilarityDesc(results) ==
    LET before == {ab \in Range(results) \X Range(results) :
                      ScoreLess(ab[2].similarity, ab[1].similarity)}
    IN StableSort(results, before)

Similarity(q, content) == SimilarityTable[q][content]

\* The working set: LIMIT 1000 (search) and LIMIT 500 (profile).
SearchWorkingSet == 1000

ProfileWorkingSet == 500

\* .filter(r => r.similarity > 0.05), in hundredths
SearchFloor == 5

\* limit = 10
DefaultSearchLimit == 10

\* POST /api/v1/search/memories
SearchMemories(q, query, containerTag, containerTags, limit) ==
    LET searchQuery == IF Truthy(q) THEN q ELSE query
        tag == ResolveTag(containerTag, containerTags)
        lim == IF limit = Undefined THEN DefaultSearchLimit ELSE limit.v
        rows == Slice(ActiveMemories({tag}), 0, SearchWorkingSet)
        scored == [i \in 1..Len(rows) |->
                     [id |-> rows[i].id, memory |-> rows[i].content,
                      similarity |-> Similarity(searchQuery.v, rows[i].content),
                      createdAt |-> rows[i].created_at]]
        relevant(r) == Exceeds(r.similarity, SearchFloor)
    IN IF ~Truthy(searchQuery) THEN <<>>
       ELSE Slice(SortBySimilarityDesc(SelectSeq(scored, relevant)), 0, lim)

\* SELECT DISTINCT: the first row of each fact text, in rowid order.
Distinct(rows) ==
    LET first(i) == \A j \in 1..(i - 1) : rows[j].fact # rows[i].fact
        idx == {i \in 1..Len(rows) : first(i)}
        nth(k) == CHOOSE i \in idx : Cardinality({j \in idx : j < i}) = k - 1
    IN [k \in 1..Cardinality(idx) |-> rows[nth(k)]]

StaticLimit == 20

DynamicLimit == 30

\* SELECT DISTINCT fact FROM profile_facts WHERE container_tag = ? AND
\* fact_type = ? ORDER BY updated_at DESC LIMIT ?
\* (facts: the table profile_facts as the request finds it)
ProfileFacts(facts, tag, factType, limit) ==
    LET cond(f) == f.container_tag = tag /\ f.fact_type = factType
        rows == Distinct(SelectSeq(facts, cond))
        before == {ab \in Range(rows) \X Range(rows) :
                      ab[1].updated_at > ab[2].updated_at}
        listed == Slice(StableSort(rows, before), 0, limit)
    IN [i \in 1..Len(listed) |-> listed[i].fact]

\* threshold = 0.1, in hundredths
DefaultThreshold == 10

ProfileResultCap == 10

\* GET /api/v1/profile: the three parts of the response.  The query
\* parameters are strings; threshold is what parseFloat makes of it.
ProfileStatic(facts, containerTag) ==
    ProfileFacts(facts,
                 IF Truthy(containerTag) THEN containerTag.v ELSE DefaultTag,
                 "static", StaticLimit)

ProfileDynamic(facts, containerTag) ==
    ProfileFacts(facts,
                 IF Truthy(containerTag) THEN containerTag.v ELSE DefaultTag,
                 "dynamic", DynamicLimit)

ProfileSearch(containerTag, q, threshold) ==
    LET tag == IF Truthy(containerTag) THEN containerTag.v ELSE DefaultTag
        t == IF threshold = Undefined THEN DefaultThreshold ELSE threshold.v
        rows == Slice(ActiveMemories({tag}), 0, ProfileWorkingSet)
        scored == [i \in 1..Len(rows) |->
                     [memory |-> rows[i].content,
                      similarity |-> Similarity(q.v, rows[i].content),
                      updatedAt |-> rows[i].created_at,
                      \* not in the response: the row the result was made from
                      id |-> rows[i].id]]
        relevant(r) == Exceeds(r.similarity, t)
    IN IF ~Truthy(q) THEN <<>>
       ELSE Slice(SortBySimilarityDesc(SelectSeq(scored, relevant)), 0, ProfileResultCap)

\* limit = 100, page = 1
DefaultListLimit == 100

DefaultPage == 1

\* POST /api/v1/documents/list
ListTags(containerTags) ==
    IF Truthy(containerTags) THEN Range(containerTags.v) ELSE {DefaultTag}

\* Math.ceil(total / limit), limit >= 1
CeilDiv(total, limit) == (total + limit - 1) \div limit

\* DocumentsList with the offset of the next page.
DocumentsListNextPage(containerTags, limit, page) ==
    LET tags == ListTags(containerTags)
        lim == IF limit = Undefined THEN DefaultListLimit ELSE limit.v
        pg == IF page = Undefined THEN DefaultPage ELSE page.v
        active == ActiveMemories(tags)
        offset == pg * lim
    IN [memories |-> Slice(active, offset, lim),
        pagination |-> [page |-> pg, limit |-> lim, total |-> Len(active),
                        totalPages |-> CeilDiv(Len(active), lim)]]

DocumentsList(containerTags, limit, page) ==
    LET tags == ListTags(containerTags)
        lim == IF limit = Undefined THEN DefaultListLimit ELSE limit.v
        pg == IF page = Undefined THEN DefaultPage ELSE page.v
        active == ActiveMemories(tags)
        offset == (pg - 1) * lim
    IN [memories |-> Slice(active, offset, lim),
        pagination |-> [page |-> pg, limit |-> lim, total |-> Len(active),
                        totalPages |-> CeilDiv(Len(active), lim)]]

\* GET /api/v1/stats
\* Stats that counts forgotten memories as well.
StatsCountingForgotten ==
    [memories |-> Len(memories),
     facts |-> Len(profile_facts),
     containers |-> {memories[i].container_tag : i \in 1..Len(memories)}]

Stats ==
    LET active(m) == m.forgotten_at = NULL
    IN [memories |-> Len(SelectSeq(memories, active)),
        facts |-> Len(profile_facts),
        containers |-> {memories[i].container_tag : i \in 1..Len(memories)}]

(***************************************************************************)
(* The requests the model sends.                                           *)
(***************************************************************************)
ContentInputs(texts) ==
    {Undefined, JsString(<<>>)} \cup {JsString(c) : c \in texts}

TagInputs == {Undefined} \cup {JsString(t) : t \in Tags}

\* The (containerTag, containerTags) pairs of a request body.
TagArgs ==
    {<<JsString(t), Undefined>> : t \in Tags}
        \cup {<<Undefined, JsArray(<<t>>)>> : t \in Tags}
        \cup {<<Undefined, Undefined>>, <<Undefined, JsArray(<<>>)>>,
              <<JsString(WorkTag), JsArray(<<DefaultTag>>)>>}

KnownIds == {generateId(n) : n \in 0..(generated - 1)}

IdInputs == {Undefined} \cup {JsString(i) : i \in KnownIds \cup {UnknownId}}

\* The (id, content) pairs of a forget request: neither, one, or both.
ForgetArgs(texts) ==
    {<<Undefined, Undefined>>, <<Undefined, JsString(<<>>)>>}
        \cup {<<i, Undefined>> : i \in IdInputs}
        \cup {<<Undefined, JsString(c)>> : c \in texts}
        \cup {<<i, JsString(c)>> : i \in IdInputs \ {Undefined}, c \in texts}

IdsInputs ==
    {Undefined, JsString(UnknownId)}
        \cup {JsArray(s) : s \in UNION {[1..n -> KnownIds \cup {UnknownId}] :
                                          n \in 0..MaxIdsLen}}

FactInputs == {Undefined} \cup {JsString(f) : f \in FactTexts \cup {GreenTea}}

QueryInputs == {Undefined, JsString(<<>>)} \cup {JsString(q) : q \in QueryTexts}

LimitInputs == {Undefined} \cup {JsNumber(n) : n \in 1..MaxLimit}

\* threshold, in hundredths, as parseFloat reads it
ThresholdInputs == {Undefined} \cup {JsNumber(t) : t \in {-10, 0, 5, 30, 60, 75, 100}}

NextOver(texts) ==
    \/ \E content \in ContentInputs(texts), tags \in TagArgs :
          Add(content, tags[1], tags[2])
    \/ \E containerTag \in TagInputs, args \in ForgetArgs(texts) :
          Forget(containerTag, args[1], args[2])
    \/ \E ids \in IdsInputs : DeleteBulk(ids)
    \/ \E containerTag \in TagInputs, fact \in FactInputs : Promote(containerTag, fact)
    \/ \E tag \in Tags : Wipe(tag)
    \/ Tick

Next == NextOver(ContentTexts)

Spec == Init /\ [][Next]_vars

NextProfile == NextOver(ProfileTexts)

SpecProfile == Init /\ [][NextProfile]_vars

NextRoundTrip == NextOver(RoundTripTexts)

SpecRoundTrip == Init /\ [][NextRoundTrip]_vars

NextScoring == NextOver(ScoringTexts)

SpecScoring == Init /\ [][NextScoring]_vars

\* Adds of texts that fact extraction reads differently.
NextExtraction ==
    \/ \E content \in ContentInputs(ExtractionTexts), tags \in TagArgs :
          Add(content, tags[1], tags[2])
    \/ Tick

SpecExtraction == Init /\ [][NextExtraction]_vars

\* The store under adds that fail while they persist their facts.
NextStorageFailure ==
    \/ \E content \in ContentInputs(StorageFailureTexts), tags \in TagArgs :
          Add(content, tags[1], tags[2])
    \/ \E c \in StorageFailureTexts, tags \in TagArgs :
          \E k \in 1..Len(FactsTable[c]) :
             AddFailing(JsString(c), tags[1], tags[2], k)
    \/ \E containerTag \in TagInputs, args \in ForgetArgs(StorageFailureTexts) :
          Forget(containerTag, args[1], args[2])
    \/ \E tag \in Tags : Wipe(tag)

SpecStorageFailure == Init /\ [][NextStorageFailure]_vars

(***************************************************************************)
(* The handlers statement by statement.  POST /api/v1/add runs one INSERT  *)
(* for the memory and one for each fact, DELETE /api/v1/container/:tag one *)
(* DELETE on each table; the other handlers run one statement.  A handler  *)
(* is a synchronous function: the event loop calls the next one when the   *)
(* one on the stack has returned.  call holds the handler on the stack.    *)
(***************************************************************************)
\* A scheduler that calls a handler while another is on the stack.
AnyHandlerMayRun == TRUE

\* (req, res) => { ... } without await: run to completion
NoHandlerRunning == call.at = "idle"

\* stmt.run(id, tag, content, ...): the handler is called and runs its
\* first statement; expected is what the whole handler makes of the store
\* it was called on.
AddBegins(content, containerTag, containerTags) ==
    LET out == AddOutcome(content, containerTag, containerTags)
    IN /\ call = NoCall
       /\ NoHandlerRunning
       /\ ~AddRejects(content)
       /\ out.generated <= MaxAdds
       /\ memories' = out.memories
       /\ generated' = out.generated
       /\ call' = [tool |-> "add", at |-> "statement", pc |-> 1,
                   tag |-> ResolveTag(containerTag, containerTags),
                   facts |-> FactsTable[content.v], now |-> now,
                   expected |-> [memories |-> out.memories,
                                 profile_facts |-> out.profile_facts,
                                 generated |-> out.generated]]
       /\ UNCHANGED <<profile_facts, now, serverUp, registration>>

\* factStmt.run(generateId(), tag, fact, now, now), once per fact
AddInsertsFact ==
    /\ call.tool = "add" /\ call.at = "statement"
    /\ call.pc <= Len(call.facts)
    /\ profile_facts' = Append(profile_facts,
           [container_tag |-> call.tag, fact |-> call.facts[call.pc],
            fact_type |-> "dynamic", updated_at |-> call.now])
    /\ call' = [call EXCEPT !.pc = @ + 1]
    /\ UNCHANGED <<memories, generated, now, serverUp, registration>>

\* res.json({ id, created: true })
AddResponds ==
    /\ call.tool = "add" /\ call.at = "statement"
    /\ call.pc > Len(call.facts)
    /\ call' = [call EXCEPT !.at = "responded"]
    /\ UNCHANGED <<memories, profile_facts, generated, now, serverUp,
                   registration>>

\* db.prepare('DELETE FROM memories WHERE container_tag = ?').run(tag)
WipeBegins(tag) ==
    /\ call = NoCall
    /\ NoHandlerRunning
    /\ memories' = WipeOutcome(tag).memories
    /\ call' = [tool |-> "wipe", at |-> "statement", pc |-> 2, tag |-> tag,
                facts |-> <<>>, now |-> now,
                expected |-> [memories |-> WipeOutcome(tag).memories,
                              profile_facts |-> WipeOutcome(tag).profile_facts,
                              generated |-> generated]]
    /\ UNCHANGED <<profile_facts, generated, now, serverUp, registration>>

\* db.prepare('DELETE FROM profile_facts WHERE container_tag = ?').run(tag),
\* then res.json({ wiped: true, containerTag: tag })
WipeDeletesFacts ==
    LET keepFact(f) == f.container_tag # call.tag
    IN /\ call.tool = "wipe" /\ call.at = "statement"
       /\ profile_facts' = SelectSeq(profile_facts, keepFact)
       /\ call' = [call EXCEPT !.at = "responded"]
       /\ UNCHANGED <<memories, generated, now, serverUp, registration>>

\* The handler returns to the event loop.
HandlerReturns ==
    /\ call.at = "responded"
    /\ call' = NoCall
    /\ UNCHANGED <<memories, profile_facts, generated, now, serverUp,
                   registration>>

\* A text with two facts in it: an add of three statements (SpecStatements).
StatementTexts == {TeaAndVim}

\* The handlers of one statement, and the rejected requests, are called
\* whole.
NextStatementsOver(texts) ==
    \/ \E c \in texts, tags \in TagArgs :
          AddBegins(JsString(c), tags[1], tags[2])
    \/ AddInsertsFact
    \/ AddResponds
    \/ \E tag \in Tags : WipeBegins(tag)
    \/ WipeDeletesFacts
    \/ HandlerReturns
    \/ NoHandlerRunning /\ \E content \in ContentInputs(texts), tags \in TagArgs :
          Add(content, tags[1], tags[2])
    \/ NoHandlerRunning /\ \E containerTag \in TagInputs, args \in ForgetArgs(texts) :
          Forget(containerTag, args[1], args[2])
    \/ NoHandlerRunning /\ \E ids \in IdsInputs : DeleteBulk(ids)
    \/ NoHandlerRunning /\ \E containerTag \in TagInputs, fact \in FactInputs :
          Promote(containerTag, fact)
    \/ NoHandlerRunning /\ \E tag \in Tags : Wipe(tag)

NextStatements == NextStatementsOver(StatementTexts)

SpecStatements == Init /\ [][NextStatements]_vars

\* The same with the text of SpecProfile: an add of two statements.
NextProfileStatements == NextStatementsOver(ProfileTexts)

SpecProfileStatements == Init /\ [][NextProfileStatements]_vars

(***************************************************************************)
(* The plugin of the agent runtime: register, the tools and the client.    *)
(***************************************************************************)
\* cfg.containerTag, the container of a tool call that names none
PluginTag == WorkTag

\* limit of the client's search: params.limit ?? 5, and forgetByQuery's 5
ClientSearchLimit == 5

\* What fetch rejects with when nothing listens at baseUrl.
FetchFailed == "TypeError: fetch failed"

\* throw new Error(`Local Supermemory API error: ...`)
ApiError == "Local Supermemory API error"

\* The server stops listening, or listens again.
ServerStops ==
    /\ serverUp
    /\ serverUp' = FALSE
    /\ UNCHANGED <<memories, profile_facts, generated, now, registration, call>>

ServerStarts ==
    /\ ~serverUp
    /\ serverUp' = TRUE
    /\ UNCHANGED <<memories, profile_facts, generated, now, registration, call>>

\* register(api): starts the health check without awaiting it, registers
\* the tools and returns.
Register ==
    /\ registration = "none"
    /\ registration' = "checking"
    /\ UNCHANGED <<memories, profile_facts, generated, now, serverUp, call>>

\* The health check settles: .then logs "server connected" on status ok,
\* .catch logs the warning.
HealthOutcome(reachable) == IF reachable THEN "connected" ELSE "warned"

HealthSettles ==
    /\ registration = "checking"
    /\ registration' = HealthOutcome(serverUp)
    /\ UNCHANGED <<memories, profile_facts, generated, now, serverUp, call>>

\* const tag = containerTag ?? this.containerTag
ClientTag(containerTag) ==
    IF containerTag = Undefined THEN PluginTag ELSE containerTag.v

\* The first await of a tool's execute: the request it sends first, or its
\* result when it sends none.
ExecuteOutcome(tool, query, id, containerTag) ==
    LET started(at, method) ==
            [tool |-> tool, at |-> at, query |-> query,
             tag |-> ClientTag(containerTag),
             target |-> IF Truthy(id) THEN id.v ELSE <<>>,
             error |-> "", method |-> method, success |-> FALSE]
    IN IF tool = "supermemory_search" THEN started("search", "search")
       ELSE IF tool = "supermemory_profile" THEN started("profile", "getProfile")
       ELSE IF Truthy(id) THEN started("forget", "deleteMemory")
       ELSE IF Truthy(query) THEN started("search", "forgetByQuery")
       ELSE started("returned", "")

\* The agent runtime calls a registered tool when no call is in flight.
Execute(tool, query, id, containerTag) ==
    /\ registration # "none"
    /\ call.at \in {"idle", "returned", "rejected"}
    /\ call' = ExecuteOutcome(tool, query, id, containerTag)
    /\ UNCHANGED <<memories, profile_facts, generated, now, serverUp, registration>>

\* LocalSupermemoryClient.request: await fetch(...) with no catch, then
\* throw on a status that is not ok. The error it throws, "" if none.
RequestError(reachable, status) ==
    IF ~reachable THEN FetchFailed
    ELSE IF status < 200 \/ status > 299 THEN ApiError
    ELSE ""

\* The call after the fetch it awaits has settled with the server's status:
\* no caller of request (search, getProfile, deleteMemory, forgetByQuery,
\* execute) has a try or a catch, so what request throws rejects execute.
SettleOutcome(reachable, status, results) ==
    LET error == RequestError(reachable, status)
    IN IF error # "" THEN [call EXCEPT !.at = "rejected", !.error = error]
       ELSE IF call.at = "search" /\ call.method = "forgetByQuery"
                 /\ results # <<>>
       THEN \* forgetByQuery: await this.deleteMemory(results[0].id, ...)
            [call EXCEPT !.at = "forget", !.target = results[1].id]
       ELSE IF call.at = "forget" /\ call.method = "forgetByQuery"
       THEN \* the result of deleteMemory is dropped:
            \* return { success: true, message: `Forgot: "${preview}"` }
            [call EXCEPT !.at = "returned", !.success = TRUE]
       ELSE \* forgetByQuery without a result returns success: false
            [call EXCEPT !.at = "returned"]

\* The fetch of the call in flight settles: the server, if it listens,
\* handles the request.
FetchSettles ==
    /\ call.at \in {"search", "forget", "profile"}
    /\ LET results == IF call.at = "search"
                      THEN SearchMemories(call.query, Undefined, JsString(call.tag),
                                          Undefined, JsNumber(ClientSearchLimit))
                      ELSE <<>>
           forgot == ForgetOutcome(JsString(call.tag), JsString(call.target),
                                   Undefined)
           status == IF call.at = "forget" THEN forgot.response.status ELSE 200
       IN /\ call' = SettleOutcome(serverUp, status, results)
          /\ memories' = IF serverUp /\ call.at = "forget" THEN forgot.memories
                         ELSE memories
    /\ UNCHANGED <<profile_facts, generated, now, serverUp, registration>>

\* params of a tool call: query, id and containerTag
ToolArgs ==
    {<<"supermemory_search", JsString(QueryTea), Undefined, t>> :
        t \in {Undefined, JsString(DefaultTag)}}
      \cup {<<"supermemory_profile", q, Undefined, t>> :
        q \in {Undefined, JsString(QueryTea)},
        t \in {Undefined, JsString(DefaultTag)}}
      \cup {<<"supermemory_forget", q, i, t>> :
        q \in {Undefined, JsString(QueryTea)},
        i \in IdInputs,
        t \in {Undefined, JsString(DefaultTag)}}

NextClient ==
    \/ ServerStops
    \/ ServerStarts
    \/ Register
    \/ HealthSettles
    \/ \E a \in ToolArgs : Execute(a[1], a[2], a[3], a[4])
    \/ FetchSettles
    \/ \E content \in ContentInputs(ContentTexts), tags \in TagArgs :
          Add(content, tags[1], tags[2])

SpecClient == Init /\ [][NextClient]_vars

\* params of a forget by query
ForgetByQueryArgs ==
    {<<"supermemory_forget", JsString(q), Undefined, t>> :
        q \in {QueryTea, QueryTo}, t \in {Undefined, JsString(DefaultTag)}}

\* forgetByQuery calls, with the requests of other clients of the server
\* between their awaits.
NextForgetByQuery ==
    \/ Register
    \/ \E a \in ForgetByQueryArgs : Execute(a[1], a[2], a[3], a[4])
    \/ FetchSettles
    \/ \E content \in ContentInputs(RoundTripTexts), tags \in TagArgs :
          Add(content, tags[1], tags[2])
    \/ \E containerTag \in TagInputs, args \in ForgetArgs(RoundTripTexts) :
          Forget(containerTag, args[1], args[2])
    \/ \E ids \in IdsInputs : DeleteBulk(ids)

SpecForgetByQuery == Init /\ [][NextForgetByQuery]_vars

(***************************************************************************)
(* LocalSupermemoryClient.wipeAllMemories: one documents/list request for  *)
(* the client's container with limit 1000, then one deleteBulk request     *)
(* with the ids of the memories it got.                                    *)
(***************************************************************************)
\* limit: 1000 of the list request
WipeListLimit == 1000

\* The list limit at the scale of the model: one that a store of MaxAdds
\* memories exceeds, as a store of 1001 exceeds the 1000 of the code.
ScaledListLimit == 1

\* The limits wipeAllMemories is run with: the one of the code, and the
\* scaled one.
WipeListLimits == {WipeListLimit, ScaledListLimit}

\* wipeAllMemories(): the call is made and sends its list request.  active
\* is the number of active memories of the container at that moment; the
\* code does not keep it.
WipeAllBegins(limit) ==
    /\ registration # "none"
    /\ call = NoCall
    /\ call' = [tool |-> "", at |-> "list", query |-> Undefined,
                tag |-> PluginTag, target |-> <<>>, error |-> "",
                method |-> "wipeAllMemories", success |-> FALSE,
                paged |-> FALSE, limit |-> limit, page |-> 1,
                ids |-> <<>>, next |-> 0, deletedCount |-> 0,
                active |-> Len(ActiveMemories({PluginTag}))]
    /\ UNCHANGED <<memories, profile_facts, generated, now, serverUp,
                   registration>>

\* The call after its list request has settled:
\* const ids = (response.memories ?? []).map(m => m.id), and
\* return { deletedCount: 0 } when there is none.
WipeAllListOutcome(reachable, listed) ==
    LET error == RequestError(reachable, 200)
        ids == [i \in 1..Len(listed) |-> listed[i].id]
    IN IF error # "" THEN [call EXCEPT !.at = "rejected", !.error = error]
       ELSE IF Len(ids) = 0 THEN [call EXCEPT !.at = "returned"]
       ELSE [call EXCEPT !.at = "deleteBulk", !.ids = ids]

WipeAllListSettles ==
    /\ call.method = "wipeAllMemories" /\ ~call.paged /\ call.at = "list"
    /\ call' = WipeAllListOutcome(serverUp,
                   DocumentsList(JsArray(<<call.tag>>), JsNumber(call.limit),
                                 Undefined).memories)
    /\ UNCHANGED <<memories, profile_facts, generated, now, serverUp,
                   registration>>

\* await this.request('POST', '/api/v1/documents/deleteBulk', { ids });
\* return { deletedCount: ids.length }
WipeAllDeleteOutcome(reachable, status) ==
    LET error == RequestError(reachable, status)
    IN IF error # "" THEN [call EXCEPT !.at = "rejected", !.error = error]
       ELSE [call EXCEPT !.at = "returned", !.deletedCount = Len(call.ids)]

WipeAllDeleteSettles ==
    /\ call.method = "wipeAllMemories" /\ ~call.paged
    /\ call.at = "deleteBulk"
    /\ \A out \in {DeleteBulkOutcome(JsArray(call.ids))} :
          /\ call' = WipeAllDeleteOutcome(serverUp, out.response.status)
          /\ memories' = IF serverUp THEN out.memories ELSE memories
    /\ UNCHANGED <<profile_facts, generated, now, serverUp, registration>>

(***************************************************************************)
(* SupermemoryClient.wipeAllMemories over the local server: documents/list *)
(* page by page, 100 a page, until a page is empty or the last one, then   *)
(* deleteBulk in batches of 100.                                           *)
(***************************************************************************)
\* limit: 100 of the list requests; the batches of deleteBulk are as long
WipePageSize == 100

\* The page size at the scale of the model: a store of MaxAdds memories has
\* more than one page of it.
ScaledPageSize == 1

WipePageSizes == {WipePageSize, ScaledPageSize}

\* wipeAllMemories(): const allIds = [], let page = 1, and the first list
\* request is sent.
PagedWipeBegins(size) ==
    /\ registration # "none"
    /\ call = NoCall
    /\ call' = [tool |-> "", at |-> "list", query |-> Undefined,
                tag |-> PluginTag, target |-> <<>>, error |-> "",
                method |-> "wipeAllMemories", success |-> FALSE,
                paged |-> TRUE, limit |-> size, page |-> 1,
                ids |-> <<>>, next |-> 0, deletedCount |-> 0,
                active |-> Len(ActiveMemories({PluginTag}))]
    /\ UNCHANGED <<memories, profile_facts, generated, now, serverUp,
                   registration>>

\* One turn of while (true) after its list request has settled: break on an
\* empty page, push the ids, break on the last page, else page++.  After
\* the loop: return { deletedCount: 0 } when allIds is empty, else the
\* first batch is sent.
PagedWipeListOutcome(reachable, response) ==
    LET listed == response.memories
        allIds == call.ids \o [i \in 1..Len(listed) |-> listed[i].id]
        last == \/ Len(listed) = 0
                \/ response.pagination.totalPages = 0
                \/ call.page >= response.pagination.totalPages
    IN IF ~reachable THEN [call EXCEPT !.at = "rejected", !.error = FetchFailed]
       ELSE IF ~last THEN [call EXCEPT !.ids = allIds, !.page = call.page + 1]
       ELSE IF Len(allIds) = 0 THEN [call EXCEPT !.at = "returned"]
       ELSE [call EXCEPT !.at = "deleteBulk", !.ids = allIds]

PagedWipeListSettles ==
    /\ call.method = "wipeAllMemories" /\ call.paged /\ call.at = "list"
    /\ call' = PagedWipeListOutcome(serverUp,
                   DocumentsList(JsArray(<<call.tag>>), JsNumber(call.limit),
                                 JsNumber(call.page)))
    /\ UNCHANGED <<memories, profile_facts, generated, now, serverUp,
                   registration>>

\* const batch = allIds.slice(i, i + 100)
WipeBatch == Slice(call.ids, call.next, call.limit)

\* One turn of for (let i = 0; i < allIds.length; i += 100) after its
\* deleteBulk request has settled: deletedCount += batch.length; the
\* status of the response is not read.
PagedWipeDeleteOutcome(reachable) ==
    IF ~reachable THEN [call EXCEPT !.at = "rejected", !.error = FetchFailed]
    ELSE [call EXCEPT
            !.at = IF call.next + call.limit < Len(call.ids)
                      THEN "deleteBulk" ELSE "returned",
            !.next = call.next + call.limit,
            !.deletedCount = call.deletedCount + Len(WipeBatch)]

PagedWipeDeleteSettles ==
    /\ call.method = "wipeAllMemories" /\ call.paged
    /\ call.at = "deleteBulk"
    /\ call' = PagedWipeDeleteOutcome(serverUp)
    /\ memories' = IF serverUp THEN DeleteBulkOutcome(JsArray(WipeBatch)).memories
                               ELSE memories
    /\ UNCHANGED <<profile_facts, generated, now, serverUp, registration>>

\* The caller has the result of the call.
WipeAllReturns ==
    /\ call.method = "wipeAllMemories" /\ call.at \in {"returned", "rejected"}
    /\ call' = NoCall
    /\ UNCHANGED <<memories, profile_facts, generated, now, serverUp,
                   registration>>

\* wipeAllMemories calls on stores that add and forget requests made; no
\* request writes while a call runs.
NextWipeAll ==
    \/ Register
    \/ \E limit \in WipeListLimits : WipeAllBegins(limit)
    \/ WipeAllListSettles
    \/ WipeAllDeleteSettles
    \/ \E size \in WipePageSizes : PagedWipeBegins(size)
    \/ PagedWipeListSettles
    \/ PagedWipeDeleteSettles
    \/ WipeAllReturns
    \/ call = NoCall /\ \E content \in ContentInputs(RoundTripTexts), tags \in TagArgs :
          Add(content, tags[1], tags[2])
    \/ call = NoCall /\ \E containerTag \in TagInputs, args \in ForgetArgs(RoundTripTexts) :
          Forget(containerTag, args[1], args[2])

SpecWipeAll == Init /\ [][NextWipeAll]_vars

(***************************************************************************)
(* Requests that name no container: every add comes without containerTag   *)
(* and without containerTags[0]; forget and promote requests come without  *)
(* containerTag, or with "default".                                        *)
(***************************************************************************)
\* A text with a fact in it, and one without.
DefaultContainerTexts == {TeaPreference, GreenTea}

\* The (containerTag, containerTags) pairs of a request body that names no
\* container.
NoTagArgs == {<<Undefined, Undefined>>, <<Undefined, JsArray(<<>>)>>}

NoTagOrDefault == {Undefined, JsString(DefaultTag)}

NextDefaultContainer ==
    \/ \E content \in ContentInputs(DefaultContainerTexts), tags \in NoTagArgs :
          Add(content, tags[1], tags[2])
    \/ \E containerTag \in NoTagOrDefault, args \in ForgetArgs(DefaultContainerTexts) :
          Forget(containerTag, args[1], args[2])
    \/ \E containerTag \in NoTagOrDefault, fact \in FactInputs :
          Promote(containerTag, fact)
    \/ Tick

SpecDefaultContainer == Init /\ [][NextDefaultContainer]_vars

(***************************************************************************)
(* The requests the properties read the store with.                        *)
(***************************************************************************)
\* (q, query) of a search request
SearchQueryArgs ==
    {<<q, Undefined>> : q \in QueryInputs} \cup {<<Undefined, JsString(QueryTea)>>}

\* containerTags of a documents/list request
ListTagInputs ==
    {Undefined} \cup {JsArray(s) : s \in {<<>>, <<DefaultTag>>, <<WorkTag>>,
                                          <<DefaultTag, WorkTag>>}}

\* page of a documents/list request: up to one more than there can be.
PageInputs == {Undefined} \cup {JsNumber(n) : n \in 1..(MaxAdds + 1)}

\* The ids of the results of a search, a profile query or a list page.
IdsOf(results) == {results[i].id : i \in 1..Len(results)}

\* Every id (container, result ids) that some request scoped to `tags`
\* only gets back.
SearchedIds(tag) ==
    UNION {IdsOf(SearchMemories(qa[1], qa[2], ta[1], ta[2], limit)) :
             qa \in SearchQueryArgs,
             ta \in {a \in TagArgs : ResolveTag(a[1], a[2]) = tag},
             limit \in LimitInputs}

ProfiledIds(tag) ==
    UNION {IdsOf(ProfileSearch(ct, q, t)) :
             ct \in {c \in TagInputs : (IF Truthy(c) THEN c.v ELSE DefaultTag) = tag},
             q \in QueryInputs, t \in ThresholdInputs}

ListedIds(containerTags) ==
    UNION {IdsOf(DocumentsList(containerTags, limit, page).memories) :
             limit \in LimitInputs, page \in PageInputs}

(***************************************************************************)
(* C1  Partition isolation.                                                *)
(***************************************************************************)
\* A memory keeps the container it was added to: no handler rewrites
\* container_tag, and no id is given twice.
ContainerKept ==
    \A i \in 1..Len(memories), j \in 1..Len(memories') :
        memories[i].id = memories'[j].id
            => memories[i].container_tag = memories'[j].container_tag

\* The container of the memory with this id.
ContainerOf(id) ==
    LET i == CHOOSE i \in 1..Len(memories) : memories[i].id = id
    IN memories[i].container_tag

\* Every memory a request scoped to some containers gets back is a memory
\* of one of these containers.
Isolated ==
    /\ \A B \in Tags :
          \A id \in SearchedIds(B) \cup ProfiledIds(B) : ContainerOf(id) = B
    /\ \A containerTags \in ListTagInputs :
          \A id \in ListedIds(containerTags) :
              ContainerOf(id) \in ListTags(containerTags)

\* C1: whatever add, forget, deleteBulk, promote and wipe did before, a
\* memory added to container A is in no result of a search, a profile
\* query or a documents/list request whose container tags include another
\* container B but not A; and the container a memory was added to stays
\* the container of its row.
PartitionIsolation ==
    /\ []Isolated
    /\ [][ContainerKept]_vars

\* Both containers hold an active memory that a search of its own
\* container finds, and each is searched and listed without the other.
PartitionIsolationWitness ==
    \E i, j \in 1..Len(memories) :
        /\ memories[i].container_tag = DefaultTag
        /\ memories[j].container_tag = WorkTag
        /\ memories[i].id \in SearchedIds(DefaultTag) \cap ProfiledIds(DefaultTag)
        /\ memories[j].id \in SearchedIds(WorkTag) \cap ProfiledIds(WorkTag)
        /\ ListedIds(JsArray(<<WorkTag>>)) = {memories[j].id}

(***************************************************************************)
(* C2  Soft-delete visibility.                                             *)
(***************************************************************************)
Forgotten(m) == m.forgotten_at # NULL

ForgottenIds ==
    {memories[i].id : i \in {k \in 1..Len(memories) : Forgotten(memories[k])}}

\* Every id some search, profile query or list request gets back.
ReadIds ==
    UNION {SearchedIds(t) \cup ProfiledIds(t) : t \in Tags}
        \cup UNION {ListedIds(containerTags) : containerTags \in ListTagInputs}

\* No read returns a forgotten memory and stats counts the others only.
ForgottenHidden ==
    /\ ForgottenIds \cap ReadIds = {}
    /\ Stats.memories = Len(memories) - Cardinality(ForgottenIds)

\* The forgotten row is still there for deleteBulk and wipe: a deleteBulk
\* naming it removes it and counts it, a wipe of its container removes it.
ForgottenStillStored ==
    /\ \A ids \in {a \in IdsInputs : IsArray(a)} :
          LET out == DeleteBulkOutcome(ids)
              named == ForgottenIds \cap Range(ids.v)
          IN /\ named \cap IdsOf(out.memories) = {}
             /\ out.response.status = 200
             /\ out.response.body.deleted = Len(memories) - Len(out.memories)
             /\ out.response.body.deleted >= Cardinality(named)
    /\ \A i \in 1..Len(memories) :
          Forgotten(memories[i])
              => memories[i].id \notin
                    IdsOf(WipeOutcome(memories[i].container_tag).memories)

\* A forgotten memory is not made active again.
StaysForgotten ==
    \A i \in 1..Len(memories), j \in 1..Len(memories') :
        Forgotten(memories[i]) /\ memories'[j].id = memories[i].id
            => Forgotten(memories'[j])

\* C2: once forget has marked a memory forgotten, every later search,
\* documents/list and profile query leaves it out and stats.memories does
\* not count it; the row is still stored: a deleteBulk whose ids contain
\* its id removes it and counts it in deleted, and a wipe of its container
\* removes it.
SoftDeleteVisibility ==
    /\ [](ForgottenHidden /\ ForgottenStillStored)
    /\ [][StaysForgotten]_vars

\* A forgotten memory that a search for "tea" would find by its content,
\* next to an active one of the same container that the search does find.
SoftDeleteVisibilityWitness ==
    \E i, j \in 1..Len(memories) :
        /\ Forgotten(memories[i])
        /\ memories[i].content = GreenTea
        /\ ~Forgotten(memories[j])
        /\ memories[j].container_tag = memories[i].container_tag
        /\ memories[j].id \in SearchedIds(memories[j].container_tag)
        /\ memories[j].id \in ListedIds(Undefined) \cup ListedIds(JsArray(<<WorkTag>>))

(***************************************************************************)
(* C3  Promotion idempotence.                                              *)
(***************************************************************************)
HasDynamicRow(tag, fact) ==
    \E i \in 1..Len(profile_facts) :
        /\ PromoteMatches(profile_facts[i], tag, fact)
        /\ profile_facts[i].fact_type = "dynamic"

\* C3: when a dynamic row matches (tag, fact), promote(tag, fact) answers
\* promoted = true, and the same promote called again right after it
\* answers promoted = false.
PromotionIdempotence ==
    [][\A tag \in Tags, fact \in FactTexts :
          HasDynamicRow(tag, fact) /\ Promote(JsString(tag), JsString(fact))
              => /\ PromoteResponse(JsString(tag), JsString(fact)).body.promoted
                 /\ ~(PromoteResponse(JsString(tag), JsString(fact)).body.promoted)'
      ]_vars

(***************************************************************************)
(* C4  Forget by id reports whether a row was marked.                      *)
(***************************************************************************)
\* The active memories with this id in this container.
ActiveWithId(tag, id) ==
    {i \in 1..Len(memories) :
        /\ memories[i].id = id
        /\ memories[i].container_tag = tag
        /\ ~Forgotten(memories[i])}

\* C4: forget(tag, id) raises no error, and answers forgotten = true
\* exactly when an active memory with that id is in container tag;
\* otherwise (unknown id, another container, forgotten or deleted before)
\* it answers forgotten = false.
ForgetByIdReportsMarked ==
    \A tag \in Tags, id \in KnownIds \cup {UnknownId} :
        LET response == ForgetResponse(JsString(tag), JsString(id), Undefined)
        IN /\ response.status = 200
           /\ response.body.forgotten = (ActiveWithId(tag, id) # {})

(***************************************************************************)
(* C5  Pagination correctness.                                             *)
(***************************************************************************)
\* The ids of the active memories of these containers.
ActiveIdsIn(tags) ==
    {memories[i].id : i \in {k \in 1..Len(memories) :
        memories[k].container_tag \in tags /\ ~Forgotten(memories[k])}}

PagesCorrect(containerTags, L) ==
    LET N == Cardinality(ActiveIdsIn(ListTags(containerTags)))
        T == DocumentsList(containerTags, JsNumber(L), Undefined).pagination.totalPages
        pageOf == [p \in 1..T |->
                    DocumentsList(containerTags, JsNumber(L), JsNumber(p)).memories]
    IN /\ (T - 1) * L < N /\ N <= T * L
       /\ \A p \in 1..T :
             /\ Len(pageOf[p]) <= L
             /\ Cardinality(IdsOf(pageOf[p])) = Len(pageOf[p])
             /\ DocumentsList(containerTags, JsNumber(L), JsNumber(p)).pagination.totalPages = T
       /\ \A p, r \in 1..T : p # r => IdsOf(pageOf[p]) \cap IdsOf(pageOf[r]) = {}
       /\ UNION {IdsOf(pageOf[p]) : p \in 1..T} = ActiveIdsIn(ListTags(containerTags))

\* C5: in any one store, for the N active memories of the requested
\* containers and limit L >= 1, documents/list reports totalPages =
\* ceil(N / L); each of the pages 1..totalPages holds at most L items, no
\* id is on two pages, and the pages together hold exactly the N active
\* memories.
PaginationCorrectness ==
    \A containerTags \in ListTagInputs, L \in 1..MaxLimit :
        PagesCorrect(containerTags, L)

\* Two active memories created at the same time, listed one per page.
PaginationCorrectnessWitness ==
    \E i, j \in 1..Len(memories) :
        /\ i # j
        /\ memories[i].created_at = memories[j].created_at
        /\ DocumentsList(Undefined, JsNumber(1), JsNumber(1)).pagination.totalPages >= 2
        /\ IdsOf(DocumentsList(Undefined, JsNumber(1), JsNumber(1)).memories) = {memories[i].id}
        /\ IdsOf(DocumentsList(Undefined, JsNumber(1), JsNumber(2)).memories) = {memories[j].id}

(***************************************************************************)
(* C6  Threshold monotonicity.                                             *)
(***************************************************************************)
\* The threshold a request asks for, in hundredths.
ThresholdOf(threshold) ==
    IF threshold = Undefined THEN DefaultThreshold ELSE threshold.v

\* C6: in any one store, for one container and one query q, thresholds
\* t1 <= t2 give profile(container, q, t2) no more searchResults than
\* profile(container, q, t1).
ThresholdMonotonicity ==
    \A containerTag \in TagInputs, q \in QueryInputs :
        \A count \in {[t \in ThresholdInputs |->
                          Len(ProfileSearch(containerTag, q, t))]} :
            \A t1, t2 \in ThresholdInputs :
                ThresholdOf(t1) <= ThresholdOf(t2) => count[t2] <= count[t1]

\* A store where raising the threshold from 0.3 to 0.6 drops a result of
\* one query, and where another query has a result above 0.75 that the
\* threshold 1 drops.
ThresholdMonotonicityWitness ==
    /\ \E q \in QueryInputs :
          Len(ProfileSearch(Undefined, q, JsNumber(60)))
              < Len(ProfileSearch(Undefined, q, JsNumber(30)))
    /\ \E q \in QueryInputs :
          Len(ProfileSearch(Undefined, q, JsNumber(100)))
              < Len(ProfileSearch(Undefined, q, JsNumber(75)))

(***************************************************************************)
(* C7  Promotion moves a fact between tiers.                               *)
(***************************************************************************)
\* The rows matching (tag, fact) in a table of facts.
Matching(facts, tag, fact) ==
    {i \in 1..Len(facts) : PromoteMatches(facts[i], tag, fact)}

\* add(tag, content): every extracted fact is listed under dynamic.
AddListsDynamic ==
    \A c \in ProfileTexts, tags \in TagArgs :
        LET out == AddOutcome(JsString(c), tags[1], tags[2])
            tag == JsString(ResolveTag(tags[1], tags[2]))
        IN Range(FactsTable[c])
              \subseteq Range(ProfileDynamic(out.profile_facts, tag))

\* promote(tag, F), where rows match (tag, F): F is listed under static
\* and not under dynamic, and every matching row is static.
PromoteMovesToStatic ==
    \A tag \in Tags, F \in FactTexts :
        LET out == PromoteOutcome(JsString(tag), JsString(F))
        IN Matching(profile_facts, tag, F) # {}
              => /\ F \in Range(ProfileStatic(out.profile_facts, JsString(tag)))
                 /\ F \notin Range(ProfileDynamic(out.profile_facts, JsString(tag)))
                 /\ \A i \in Matching(out.profile_facts, tag, F) :
                       out.profile_facts[i].fact_type = "static"

NoContent == {Undefined, JsString(<<>>)}

\* C8: add with missing or empty content is answered 400 and leaves both
\* tables as they are: no memory row and no fact row is inserted.
CreateValidation ==
    \A content \in NoContent, tags \in TagArgs :
        LET out == AddOutcome(content, tags[1], tags[2])
        IN /\ out.response.status = 400
           /\ out.memories = memories
           /\ out.profile_facts = profile_facts
           /\ out.generated = generated

\* A store with a memory in it, where add refuses the empty content and
\* the missing content.
CreateValidationWitness ==
    /\ Len(memories) > 0
    /\ AddResponse(JsString(<<>>), JsString(WorkTag), Undefined).status = 400
    /\ AddResponse(Undefined, Undefined, Undefined).status = 400
    /\ AddResponse(JsString(GreenTea), Undefined, Undefined).status = 200

(***************************************************************************)
(* C9  Forget validation.                                                  *)
(***************************************************************************)
\* The forget requests of the model: containerTag, id, content.
ForgetRequests ==
    {<<containerTag, args[1], args[2]>> :
        containerTag \in TagInputs, args \in ForgetArgs(ContentTexts)}

Rejected(out) == out.response.status = 400 /\ out.memories = memories

\* C9, as claimed: a forget supplying neither id nor content, and a forget
\* supplying both, is answered 400 and marks no memory.
ForgetNeedsExactlyOne ==
    \A r \in ForgetRequests :
        Truthy(r[2]) = Truthy(r[3]) => Rejected(ForgetOutcome(r[1], r[2], r[3]))

\* C9, amended: a forget supplying neither id nor content is answered 400
\* and marks no memory; a forget supplying both is not refused for it: its
\* outcome is that of the same forget by id without the content; and a
\* forget supplying one of the two is not answered 400.
ForgetValidation ==
    \A r \in ForgetRequests :
        LET out == ForgetOutcome(r[1], r[2], r[3])
        IN /\ ~Truthy(r[2]) /\ ~Truthy(r[3]) => Rejected(out)
           /\ Truthy(r[2]) /\ Truthy(r[3])
                 => out = ForgetOutcome(r[1], r[2], Undefined)
           /\ Truthy(r[2]) \/ Truthy(r[3]) => out.response.status # 400

\* An active memory that a forget naming its id and the content of another
\* memory marks, where a forget with neither is refused.
ForgetValidationWitness ==
    \E i, j \in 1..Len(memories) :
        LET m == memories[i]
            out == ForgetOutcome(JsString(m.container_tag), JsString(m.id),
                                 JsString(memories[j].content))
        IN /\ ~Forgotten(m)
           /\ memories[j].content # m.content
           /\ out.response.status = 200
           /\ Forgotten(out.memories[i])
           /\ ~Forgotten(out.memories[j])
           /\ Rejected(ForgetOutcome(JsString(m.container_tag), Undefined, Undefined))

(***************************************************************************)
(* C10  Bulk-delete validation.                                            *)
(***************************************************************************)
NotDeleting(out) == out.memories = memories

\* C10, as claimed: deleteBulk is answered 400 and deletes nothing when
\* ids is missing, is not a sequence, or is the empty sequence.
BulkDeleteNeedsIds ==
    \A ids \in {Undefined, JsString(UnknownId), JsArray(<<>>)} :
        /\ DeleteBulkOutcome(ids).response.status = 400
        /\ NotDeleting(DeleteBulkOutcome(ids))

\* C10, amended: deleteBulk is answered 400 and deletes nothing when ids
\* is missing or is not a sequence; the empty sequence is accepted: the
\* answer is 200 with deleted = 0, and nothing is deleted.
BulkDeleteValidation ==
    /\ \A ids \in {a \in IdsInputs : ~IsArray(a)} :
          /\ DeleteBulkOutcome(ids).response.status = 400
          /\ NotDeleting(DeleteBulkOutcome(ids))
    /\ DeleteBulkOutcome(JsArray(<<>>)).response = Response(200, [deleted |-> 0])
    /\ NotDeleting(DeleteBulkOutcome(JsArray(<<>>)))

\* A store with memories in it, where deleteBulk takes the empty sequence
\* and refuses a string.
BulkDeleteValidationWitness ==
    /\ Len(memories) > 1
    /\ DeleteBulkResponse(JsArray(<<>>)).status = 200
    /\ DeleteBulkResponse(JsString(UnknownId)).status = 400
    /\ DeleteBulkResponse(JsArray(<<memories[1].id>>)).body.deleted = 1

(***************************************************************************)
(* C11  Container wipe.                                                    *)
(***************************************************************************)
\* The rows of a table whose container is one of tags, in rowid order.
RowsOf(table, tags) ==
    LET inTags(r) == r.container_tag \in tags
    IN SelectSeq(table, inTags)

\* C11: after wipe(T) has answered, no memory row (active or forgotten)
\* and no fact row (dynamic or static) of container T is left, and the
\* memory and fact rows of every other container are as they were.
ContainerWipe ==
    \A T \in Tags :
        LET out == WipeOutcome(T)
        IN /\ out.response.status = 200
           /\ RowsOf(out.memories, {T}) = <<>>
           /\ RowsOf(out.profile_facts, {T}) = <<>>
           /\ out.memories = RowsOf(memories, Tags \ {T})
           /\ out.profile_facts = RowsOf(profile_facts, Tags \ {T})

\* Two memories were added, each with its fact; the one of the other
\* container and its fact are gone, which only a wipe does, and the
\* memory and the fact of this container are still there; a wipe of this
\* container would now remove a forgotten memory and a static fact.
ContainerWipeWitness ==
    /\ generated = 2
    /\ Len(memories) = 1
    /\ Len(profile_facts) = 1
    /\ memories[1].container_tag = profile_facts[1].container_tag
    /\ Forgotten(memories[1])
    /\ profile_facts[1].fact_type = "static"

(***************************************************************************)
(* C12  Hard delete by id.                                                 *)
(***************************************************************************)
\* C12: deleteBulk(ids) removes exactly the stored memories whose id is in
\* ids, of any container, active or forgotten; deleted is the number of
\* rows removed (an unknown id and a repeated id add nothing); every other
\* memory row is as it was.
HardDeleteById ==
    \A ids \in {a \in IdsInputs : IsArray(a)} :
        \A out \in {DeleteBulkOutcome(ids)} :
            \A named \in {IdsOf(memories) \cap Range(ids.v)} :
                LET left(m) == m.id \notin named
                IN /\ IdsOf(out.memories) = IdsOf(memories) \ named
                   /\ out.memories = SelectSeq(memories, left)
                   /\ out.response
                         = Response(200, [deleted |-> Cardinality(named)])

\* A forgotten memory of one container and an active one of the other:
\* naming both deletes 2 and leaves nothing, naming the forgotten one
\* twice, or next to an unknown id, deletes 1 and leaves the other.
HardDeleteByIdWitness ==
    \E i, j \in 1..Len(memories) :
        LET a == memories[i].id
            b == memories[j].id
        IN /\ Forgotten(memories[i]) /\ ~Forgotten(memories[j])
           /\ memories[i].container_tag # memories[j].container_tag
           /\ DeleteBulkResponse(JsArray(<<a, b>>)).body.deleted = 2
           /\ DeleteBulkOutcome(JsArray(<<b, a>>)).memories = <<>>
           /\ DeleteBulkResponse(JsArray(<<a, a>>)).body.deleted = 1
           /\ DeleteBulkResponse(JsArray(<<a, UnknownId>>)).body.deleted = 1
           /\ DeleteBulkOutcome(JsArray(<<a, UnknownId>>)).memories = <<memories[j]>>

(***************************************************************************)
(* C13  No cascade to facts.                                               *)
(***************************************************************************)
\* What profile(tag) lists, for every tag, is the same over both tables.
SameProfile(facts, other) ==
    \A tag \in TagInputs :
        /\ ProfileStatic(facts, tag) = ProfileStatic(other, tag)
        /\ ProfileDynamic(facts, tag) = ProfileDynamic(other, tag)

\* C13: a forget (by id or by content) and a deleteBulk insert, remove and
\* modify no fact row: the fact rows, and what profile(tag) lists, are the
\* same before and after.
NoCascadeToFacts ==
    \A after \in {ForgetProfileFacts(r[1], r[2], r[3]) : r \in ForgetArgs(ProfileTexts)}
                 \cup {DeleteBulkProfileFacts(ids) : ids \in IdsInputs} :
        after = profile_facts /\ SameProfile(after, profile_facts)

\* Two memories were added, each with its fact; one was deleted by
\* deleteBulk and the other forgotten, and both facts are still listed.
NoCascadeToFactsWitness ==
    /\ generated = 2
    /\ Len(memories) = 1
    /\ Forgotten(memories[1])
    /\ Len(profile_facts) = 2
    /\ \A i \in 1..2 : profile_facts[i].container_tag = WorkTag
    /\ Len(ProfileDynamic(profile_facts, JsString(WorkTag))) = 1

(***************************************************************************)
(* C14  Stats aggregation.                                                 *)
(***************************************************************************)
\* C14: stats.memories is the number of memory rows that are not forgotten,
\* over all containers; stats.facts is the number of all fact rows, those
\* of forgotten and hard-deleted memories included; stats.containers is the
\* set of container tags of the memory rows stored.
StatsAggregation ==
    /\ Stats.memories = Cardinality(IdsOf(memories) \ ForgottenIds)
    /\ Stats.facts = Cardinality(DOMAIN profile_facts)
    /\ Stats.containers = {T \in Tags : RowsOf(memories, {T}) # <<>>}

\* Two memories with one fact each were added in two containers; one was
\* hard-deleted and the other forgotten: no memory counts, both facts do,
\* and the forgotten memory's container is still listed.
StatsAggregationWitness ==
    /\ generated = 2
    /\ Len(memories) = 1
    /\ Forgotten(memories[1])
    /\ {profile_facts[i].container_tag : i \in 1..Len(profile_facts)} = Tags
    /\ Stats = [memories |-> 0, facts |-> 2,
                containers |-> {memories[1].container_tag}]

(***************************************************************************)
(* C15  Create side effect.                                                *)
(***************************************************************************)
\* C15: a successful add inserts one memory row, active and in the
\* request's container, and one dynamic fact row of that container per fact
\* extracted from the content, in order; every row there was is still there
\* and unchanged, also when the content and its facts are already stored.
CreateSideEffect ==
    \A c \in AllTexts \ {<<>>} : \A facts \in {FactsTable[c]} :
      \A t \in TagArgs : \A out \in {AddOutcome(JsString(c), t[1], t[2])} :
        LET tag == ResolveTag(t[1], t[2])
            n == Len(memories)
            k == Len(profile_facts)
        IN /\ out.response = Response(200, [id |-> out.memories[n + 1].id,
                                             created |-> TRUE])
           /\ Len(out.memories) = n + 1
           /\ SubSeq(out.memories, 1, n) = memories
           /\ out.memories[n + 1].id \notin IdsOf(memories)
           /\ out.memories[n + 1].content = c
           /\ out.memories[n + 1].container_tag = tag
           /\ out.memories[n + 1].forgotten_at = NULL
           /\ Truthy(t[1]) => tag = t[1].v
           /\ Len(out.profile_facts) = k + Len(facts)
           /\ SubSeq(out.profile_facts, 1, k) = profile_facts
           /\ \A i \in 1..Len(facts) :
                 /\ out.profile_facts[k + i].fact = facts[i]
                 /\ out.profile_facts[k + i].fact_type = "dynamic"
                 /\ out.profile_facts[k + i].container_tag = tag

\* The same content was added twice to one container: two memories and two
\* fact rows with the same text; a third add makes a third row of it.
CreateSideEffectWitness ==
    /\ Len(memories) = 2
    /\ memories[1].content = memories[2].content
    /\ memories[1].container_tag = WorkTag /\ memories[2].container_tag = WorkTag
    /\ Len(profile_facts) = 2
    /\ profile_facts[1].fact = profile_facts[2].fact
    /\ profile_facts[1].container_tag = WorkTag
    /\ profile_facts[2].container_tag = WorkTag
    /\ LET out == AddOutcome(JsString(memories[1].content), JsString(WorkTag),
                             Undefined)
       IN /\ Len(out.profile_facts) = 3
          /\ out.profile_facts[3].fact = profile_facts[1].fact

(***************************************************************************)
(* C16  Round trip.                                                        *)
(***************************************************************************)
\* q has at least one term and occurs in content as a contiguous substring,
\* letter case aside.
OccursIn ==
    [q \in QueryTexts |-> [c \in AllTexts |->
        /\ tokenize(q) # <<>>
        /\ Includes(toLowerCase(c), toLowerCase(q))]]

\* The rows of the active memories of the container of row i, other than i.
OtherActive(i) ==
    {j \in 1..Len(memories) :
        /\ j # i
        /\ memories[j].container_tag = memories[i].container_tag
        /\ ~Forgotten(memories[j])}

\* The other memories that score higher than row i for q.
ScoringHigher(i, q) ==
    {j \in OtherActive(i) :
        ScoreLess(Similarity(q, memories[i].content),
                  Similarity(q, memories[j].content))}

\* The other memories that score the same as row i for q and come first
\* in most-recent-first order (created_at descending, then insertion order).
TiedAhead(i, q) ==
    {j \in OtherActive(i) :
        /\ ~ScoreLess(Similarity(q, memories[i].content),
                      Similarity(q, memories[j].content))
        /\ ~ScoreLess(Similarity(q, memories[j].content),
                      Similarity(q, memories[i].content))
        /\ \/ memories[j].created_at > memories[i].created_at
           \/ memories[j].created_at = memories[i].created_at /\ j < i}

\* search(tag, q, limit) returns the memory of row i with similarity > 0.05.
Returned(i, q, limit) ==
    LET results == SearchMemories(JsString(q), Undefined,
                                  JsString(memories[i].container_tag),
                                  Undefined, limit)
    IN \E k \in 1..Len(results) :
          /\ results[k].id = memories[i].id
          /\ results[k].memory = memories[i].content
          /\ Exceeds(results[k].similarity, SearchFloor)

\* The rows and requests of the round trip: an active memory, a query that
\* occurs in its content, and a limit.
RoundTrips ==
    {r \in (1..Len(memories)) \X QueryTexts \X LimitInputs :
        /\ ~Forgotten(memories[r[1]])
        /\ OccursIn[r[2]][memories[r[1]].content]}

LimitOf(limit) == IF limit = Undefined THEN DefaultSearchLimit ELSE limit.v

\* C16: a memory that was added and is still active is returned, with
\* similarity > 0.05, by a search of its container for a q that has a term
\* and occurs in its content, when fewer than limit other memories of the
\* container score higher or score the same and come first in
\* most-recent-first order.
RoundTrip ==
    \A r \in RoundTrips :
        Cardinality(ScoringHigher(r[1], r[2]) \cup TiedAhead(r[1], r[2]))
                < LimitOf(r[3])
            => Returned(r[1], r[2], r[3])

\* C16 as stated: returned when fewer than limit other memories score
\* higher.
RoundTripHigherOnly ==
    \A r \in RoundTrips :
        Cardinality(ScoringHigher(r[1], r[2])) < LimitOf(r[3])
            => Returned(r[1], r[2], r[3])

\* "Teapot" and then "Green Tea" were added to one container: a search for
\* "tea" with limit 2 returns "Teapot" behind the higher-scoring "Green Tea".
RoundTripWitness ==
    /\ Len(memories) = 2
    /\ memories[1].content = Teapot /\ memories[2].content = GreenTea
    /\ memories[1].container_tag = memories[2].container_tag
    /\ ~Forgotten(memories[1]) /\ ~Forgotten(memories[2])
    /\ ScoringHigher(1, QueryTea) = {2}
    /\ <<1, QueryTea, JsNumber(2)>> \in RoundTrips
    /\ Returned(1, QueryTea, JsNumber(2))
    /\ ~Returned(1, QueryTea, JsNumber(1))

(***************************************************************************)
(* C17  Promotion without a match is a no-op.                              *)
(***************************************************************************)
\* No fact row has that container tag and that exact text.
NoSuchFact(tag, fact) ==
    ~\E i \in 1..Len(profile_facts) :
        /\ profile_facts[i].container_tag = tag
        /\ profile_facts[i].fact = fact

\* C17: promote(tag, fact) when no fact row has that container tag and that
\* text answers promoted = false with status 200 and leaves every fact row
\* as it was, rows with the text in other containers included.
PromotionWithoutMatch ==
    \A tag \in Tags : \A fact \in FactTexts \cup {GreenTea} :
        NoSuchFact(tag, fact)
            => \A out \in {PromoteOutcome(JsString(tag), JsString(fact))} :
                  /\ out.response = Response(200, [promoted |-> FALSE])
                  /\ out.profile_facts = profile_facts

\* A dynamic row with the text is stored in the work container and none in
\* the default container, where the text is promoted.
PromotionWithoutMatchWitness ==
    /\ Len(profile_facts) = 1
    /\ profile_facts[1].container_tag = WorkTag
    /\ profile_facts[1].fact_type = "dynamic"
    /\ NoSuchFact(DefaultTag, profile_facts[1].fact)
    /\ PromoteOutcome(JsString(DefaultTag), JsString(profile_facts[1].fact)).response
          = Response(200, [promoted |-> FALSE])

(***************************************************************************)
(* C19  Forget by content.                                                 *)
(***************************************************************************)
\* The rows of the active memories of container tag with that content.
ActiveWithContent(tag, content) ==
    {i \in 1..Len(memories) :
        /\ memories[i].content = content
        /\ memories[i].container_tag = tag
        /\ ~Forgotten(memories[i])}

\* C19: forget(tag, content) marks forgotten, at the time of the request,
\* exactly the active memories of container tag with that content, leaves
\* every other memory as it was, and answers forgotten = true if and only
\* if it marked a row.
ForgetByContent ==
    \A tag \in Tags : \A content \in ContentTexts :
      \A out \in {ForgetOutcome(JsString(tag), Undefined, JsString(content))} :
        LET marked == ActiveWithContent(tag, content)
        IN /\ Len(out.memories) = Len(memories)
           /\ \A i \in marked :
                 /\ Forgotten(out.memories[i])
                 /\ out.memories[i] = [memories[i] EXCEPT !.forgotten_at = now]
           /\ \A i \in (1..Len(memories)) \ marked :
                 out.memories[i] = memories[i]
           /\ out.response = Response(200, [id |-> ContentMatch,
                                            forgotten |-> marked # {}])

\* Two active memories with one content, one in each container: forgetting
\* the content in the work container marks the first row only.
ForgetByContentWitness ==
    /\ Len(memories) = 2
    /\ memories[1].content = GreenTea /\ memories[2].content = GreenTea
    /\ memories[1].container_tag = WorkTag
    /\ memories[2].container_tag = DefaultTag
    /\ ~Forgotten(memories[1]) /\ ~Forgotten(memories[2])
    /\ ActiveWithContent(WorkTag, GreenTea) = {1}
    /\ LET out == ForgetOutcome(JsString(WorkTag), Undefined, JsString(GreenTea))
       IN /\ Forgotten(out.memories[1])
          /\ out.memories[2] = memories[2]
          /\ out.response.body.forgotten

(***************************************************************************)
(* C20  Forget by id on a forgotten memory.                                *)
(***************************************************************************)
\* C20: forget(tag, id) on a memory that is already forgotten leaves the
\* stored rows, its forgotten_at included, as they were.
ForgetByIdKeepsFirstTime ==
    \A i \in 1..Len(memories) :
        Forgotten(memories[i])
            => ForgetOutcome(JsString(memories[i].container_tag),
                             JsString(memories[i].id), Undefined).memories
                 = memories

(***************************************************************************)
(* C18  Client-side transport failure.                                     *)
(***************************************************************************)
\* A health check that settles while the server is unreachable logs the
\* warning, and registration has completed before.
RegistrationWarns ==
    [][registration = "checking" /\ registration' # "checking" /\ ~serverUp
         => registration' = "warned"]_vars

\* C18: no tool call ends in the exception of a failed fetch, propagated to
\* the agent runtime that called execute.
TransportFailureHandled ==
    ~(call.at = "rejected" /\ call.error = FetchFailed)

(***************************************************************************)
(* C21  Forget by id is container-scoped.                                  *)
(***************************************************************************)
\* The memory of row i is listed in its container and, when "tea" occurs
\* in it, found there by a search for "tea".
VisibleInContainer(i) ==
    /\ memories[i].id \in
          IdsOf(DocumentsList(JsArray(<<memories[i].container_tag>>),
                              Undefined, Undefined).memories)
    /\ OccursIn[QueryTea][memories[i].content]
          => memories[i].id \in
               IdsOf(SearchMemories(JsString(QueryTea), Undefined,
                                    JsString(memories[i].container_tag),
                                    Undefined, Undefined))

\* C21: forget(B, id) with the id of a memory of another container A
\* changes no memory row: the memory keeps its forgotten_at, and while
\* active it is listed and found in A.
ForgetByIdContainerScoped ==
    \A i \in 1..Len(memories) : \A B \in Tags \ {memories[i].container_tag} :
        /\ ForgetOutcome(JsString(B), JsString(memories[i].id), Undefined).memories
              = memories
        /\ ~Forgotten(memories[i]) => VisibleInContainer(i)

\* An active "Green Tea" of the work container, whose id is forgotten in
\* the default container: the request is answered with forgotten = true
\* and the memory is still listed and found.
ForgetByIdContainerScopedWitness ==
    /\ Len(memories) = 2
    /\ memories[1].container_tag = WorkTag /\ memories[1].content = GreenTea
    /\ memories[2].container_tag = DefaultTag
    /\ ~Forgotten(memories[1]) /\ Forgotten(memories[2])
    /\ ForgetOutcome(JsString(DefaultTag), JsString(memories[1].id),
                     Undefined).response.status = 200
    /\ VisibleInContainer(1)

(***************************************************************************)
(* C22  Search ranking.                                                    *)
(***************************************************************************)
\* The row of the memory with that id.
RowOf(id) == CHOOSE i \in 1..Len(memories) : memories[i].id = id

\* Row i comes before row j in most-recent-first order.
MoreRecent(i, j) ==
    \/ memories[i].created_at > memories[j].created_at
    \/ memories[i].created_at = memories[j].created_at /\ i < j

\* results is a ranking of active memories of container tag for query q,
\* cut at limit.
Ranked(results, tag, q, limit) ==
    /\ Len(results) <= LimitOf(limit)
    /\ \A k \in 1..Len(results) :
          /\ results[k].id \in ActiveIdsIn({tag})
          /\ results[k].memory = memories[RowOf(results[k].id)].content
          /\ results[k].similarity = Similarity(q, results[k].memory)
          /\ Exceeds(results[k].similarity, SearchFloor)
    /\ \A k, l \in 1..Len(results) :
          k < l => /\ ~ScoreLess(results[k].similarity, results[l].similarity)
                   /\ ~ScoreLess(results[l].similarity, results[k].similarity)
                         => MoreRecent(RowOf(results[k].id), RowOf(results[l].id))
    /\ \A i \in 1..Len(memories) :
          /\ memories[i].container_tag = tag
          /\ ~Forgotten(memories[i])
          /\ memories[i].id \notin IdsOf(results)
          => \A k \in 1..Len(results) :
                ~ScoreLess(results[k].similarity,
                           Similarity(q, memories[i].content))

\* C22: search(tag, q, limit) returns at most limit results, each an active
\* memory of the container with similarity > 0.05, in non-increasing
\* similarity order with equal scores most recent first, and no active
\* memory left out scores higher than a returned one.
SearchRanking ==
    \A tag \in Tags : \A q \in QueryTexts : \A limit \in LimitInputs :
        Ranked(SearchMemories(JsString(q), Undefined, JsString(tag), Undefined,
                              limit),
               tag, q, limit)

\* "Teapot" and then "Green Tea" were added to the work container at the
\* same time: a search for "tea" puts the higher-scoring "Green Tea" first,
\* and with limit 1 leaves "Teapot" out.
SearchRankingWitness ==
    /\ Len(memories) = 2
    /\ memories[1].content = Teapot /\ memories[2].content = GreenTea
    /\ memories[1].container_tag = WorkTag /\ memories[2].container_tag = WorkTag
    /\ memories[1].created_at = memories[2].created_at
    /\ ~Forgotten(memories[1]) /\ ~Forgotten(memories[2])
    /\ LET two == SearchMemories(JsString(QueryTea), Undefined, JsString(WorkTag),
                                 Undefined, JsNumber(2))
           one == SearchMemories(JsString(QueryTea), Undefined, JsString(WorkTag),
                                 Undefined, JsNumber(1))
       IN /\ Len(two) = 2
          /\ two[1].id = memories[2].id /\ two[2].id = memories[1].id
          /\ ScoreLess(two[2].similarity, two[1].similarity)
          /\ Len(one) = 1 /\ one[1].id = memories[2].id

(***************************************************************************)
(* C23  Memory immutability.                                               *)
(***************************************************************************)
\* A row that is stored before and after the step differs in forgotten_at
\* at most.
OnlyForgottenAtChanges ==
    \A i \in 1..Len(memories), j \in 1..Len(memories') :
        memories[i].id = memories'[j].id
            => memories'[j] = [memories[i] EXCEPT
                                  !.forgotten_at = memories'[j].forgotten_at]

\* C23: from its creation until its row is removed, a memory keeps its id,
\* container_tag, content, metadata, custom_id and created_at through every
\* operation; the only field that changes is forgotten_at.
MemoryImmutability == [][OnlyForgottenAtChanges]_vars

\* A memory created at time 0 was forgotten at time 1.
MemoryImmutabilityWitness ==
    \E i \in 1..Len(memories) :
        /\ memories[i].created_at = 0
        /\ memories[i].forgotten_at = 1
        /\ memories[i].content = GreenTea

(***************************************************************************)
(* C24  Soft-delete is one-way.                                            *)
(***************************************************************************)
\* Every stored id was handed out by generateId, once.
StoredIdsKnown ==
    /\ IdsOf(memories) \subseteq KnownIds
    /\ Cardinality(IdsOf(memories)) = Len(memories)

\* A step moves a memory from active to forgotten or out of the table, and
\* from forgotten out of the table only; a row that comes in is active and
\* has an id that was never handed out before.
OneWayStep ==
    /\ \A i \in 1..Len(memories), j \in 1..Len(memories') :
          memories'[j].id = memories[i].id /\ Forgotten(memories[i])
              => Forgotten(memories'[j])
    /\ \A j \in 1..Len(memories') :
          memories'[j].id \notin IdsOf(memories)
              => /\ ~Forgotten(memories'[j])
                 /\ memories'[j].id \notin KnownIds
    /\ generated' >= generated

\* C24: a forgotten memory is never active again, and a removed id never
\* comes back: a memory goes from active to forgotten to removed, or from
\* active to removed.
SoftDeleteOneWay == []StoredIdsKnown /\ [][OneWayStep]_vars

\* Of two memories one was removed; the other was forgotten at time 0 and
\* is still forgotten at time 1.
SoftDeleteOneWayWitness ==
    /\ generated = 2
    /\ Len(memories) = 1
    /\ memories[1].forgotten_at = 0
    /\ now = 1

(***************************************************************************)
(* C25  Partial create on failure.                                         *)
(***************************************************************************)
\* C25: an add whose k-th fact insert fails is answered with status 500 and
\* leaves the memory row and the first k-1 fact rows stored next to every
\* row there was; every active memory stored, that one included, is listed
\* and found in its container.
PartialCreate ==
    /\ \A c \in AllTexts \ {<<>>} : \A t \in TagArgs :
        \A k \in 1..Len(FactsTable[c]) :
        \A out \in {AddFailureOutcome(JsString(c), t[1], t[2], k)} :
          LET tag == ResolveTag(t[1], t[2])
              n == Len(memories)
              f == Len(profile_facts)
          IN /\ out.response.status = 500
             /\ Len(out.memories) = n + 1
             /\ SubSeq(out.memories, 1, n) = memories
             /\ out.memories[n + 1].content = c
             /\ out.memories[n + 1].container_tag = tag
             /\ out.memories[n + 1].forgotten_at = NULL
             /\ Len(out.profile_facts) = f + k - 1
             /\ SubSeq(out.profile_facts, 1, f) = profile_facts
             /\ \A i \in 1..(k - 1) :
                   /\ out.profile_facts[f + i].fact = FactsTable[c][i]
                   /\ out.profile_facts[f + i].fact_type = "dynamic"
                   /\ out.profile_facts[f + i].container_tag = tag
    /\ \A i \in 1..Len(memories) :
          ~Forgotten(memories[i]) => VisibleInContainer(i)

\* The one add so far failed at the second of its two facts: its memory
\* and its first fact are stored, and the memory is listed and found.
PartialCreateWitness ==
    /\ generated = 1
    /\ Len(memories) = 1
    /\ Len(FactsTable[memories[1].content]) = 2
    /\ Len(profile_facts) = 1
    /\ profile_facts[1].fact = FactsTable[memories[1].content][1]
    /\ ~Forgotten(memories[1])
    /\ VisibleInContainer(1)

(***************************************************************************)
(* C26  Fact extraction shape.                                             *)
(***************************************************************************)
\* The patterns a segment matches.
MatchingPatterns(segment) ==
    {n \in 1..Len(preferencePatterns) : PatternTest(preferencePatterns[n], segment)}

\* The trimmed segments of a text that are longer than 10 and match a
\* pattern, in the order of the text, each once.
QualifyingSegments ==
    [c \in AllTexts |->
        LET segments == Runs(c, 1, <<>>, SentenceEnds)
            trimmed == [n \in 1..Len(segments) |-> trim(segments[n])]
            qualifies(s) == Len(s) > 10 /\ MatchingPatterns(s) # {}
        IN SelectSeq(trimmed, qualifies)]

\* How many fact rows the adds of the rows before row i have written.
RECURSIVE FactsBefore(_)
FactsBefore(i) ==
    IF i = 1 THEN 0
    ELSE FactsBefore(i - 1) + Len(QualifyingSegments[memories[i - 1].content])

\* C26: the facts extracted from a text are its trimmed segments that are
\* longer than 10 and match a pattern, verbatim, in the order of the text
\* and one per segment however many patterns match it: every add has
\* stored exactly these, and extractFacts gives exactly these.
ExtractionShape ==
    /\ \A c \in ExtractionTexts : extractFacts(c) = QualifyingSegments[c]
    /\ Len(profile_facts) = FactsBefore(Len(memories) + 1)
    /\ \A i \in 1..Len(memories) :
          \A n \in 1..Len(QualifyingSegments[memories[i].content]) :
             LET row == profile_facts[FactsBefore(i) + n]
             IN /\ row.fact = QualifyingSegments[memories[i].content][n]
                /\ row.container_tag = memories[i].container_tag

\* "I prefer tea! I always use Vim" was added, and then a text with a short
\* segment, a segment without a pattern and a segment that matches two
\* patterns: three fact rows, the third that segment, stored once.
ExtractionShapeWitness ==
    /\ Len(memories) = 2
    /\ memories[1].content = TeaAndVim /\ memories[2].content = VimAndTea
    /\ Len(profile_facts) = 3
    /\ Len(Runs(VimAndTea, 1, <<>>, SentenceEnds)) = 3
    /\ profile_facts[3].fact = trim(Runs(VimAndTea, 1, <<>>, SentenceEnds)[3])
    /\ MatchingPatterns(profile_facts[3].fact) = {1, 2}
    /\ MatchingPatterns(trim(Runs(VimAndTea, 1, <<>>, SentenceEnds)[1])) = {1}
    /\ MatchingPatterns(trim(Runs(VimAndTea, 1, <<>>, SentenceEnds)[2])) = {}

(***************************************************************************)
(* C27. Zero score without terms: computeSimilarity is 0 whenever the      *)
(* query or the content yields no term of three or more characters, also   *)
(* when the content contains the query literally (no boost is added), and  *)
(* a search never returns a memory for such a query or with such a         *)
(* content.                                                                *)
(***************************************************************************)
HasTerm == [t \in AllTexts \cup ScoredQueries |-> tokenize(t) # <<>>]

ContainsLiterally ==
    [q \in ScoredQueries |-> [c \in AllTexts |->
        Includes(toLowerCase(c), toLowerCase(q))]]

TermlessScoresZero ==
    \A q \in ScoredQueries : \A c \in AllTexts :
       ~HasTerm[q] \/ ~HasTerm[c] =>
          /\ computeSimilarity(q, c) = ZeroScore
          /\ \A t \in 0..100 : ~Exceeds(computeSimilarity(q, c), t)

ZeroScoreWithoutTerms ==
    /\ TermlessScoresZero
    /\ \A tag \in Tags : \A q \in ScoredQueries :
          \A found \in {SearchMemories(JsString(q), Undefined, JsString(tag),
                                       Undefined, Undefined)} :
             \A n \in 1..Len(found) : HasTerm[q] /\ HasTerm[found[n].memory]

\* "to do" and "Teapot" are active in one container: "to" occurs in the
\* first and "ea" in the second, neither search returns anything, and the
\* search for "tea" returns the second only.
ZeroScoreWithoutTermsWitness ==
    /\ Len(memories) = 2
    /\ memories[1].content = ToDo /\ memories[2].content = Teapot
    /\ memories[1].container_tag = DefaultTag
    /\ memories[2].container_tag = DefaultTag
    /\ ~Forgotten(memories[1]) /\ ~Forgotten(memories[2])
    /\ ContainsLiterally[QueryTo][ToDo] /\ ContainsLiterally[QueryEa][Teapot]
    /\ ~HasTerm[QueryTo] /\ ~HasTerm[ToDo] /\ ~HasTerm[QueryEa]
    /\ HasTerm[Teapot]
    /\ SearchMemories(JsString(QueryTo), Undefined, JsString(DefaultTag),
                      Undefined, Undefined) = <<>>
    /\ SearchMemories(JsString(QueryEa), Undefined, JsString(DefaultTag),
                      Undefined, Undefined) = <<>>
    /\ Len(SearchMemories(JsString(QueryTea), Undefined, JsString(DefaultTag),
                          Undefined, Undefined)) = 1

(***************************************************************************)
(* C28. Server requests are serializable: a handler runs all its store     *)
(* statements without another handler's statements in between, so the      *)
(* store a handler leaves is the store the whole handler makes of the one  *)
(* it was called on, and every run of concurrent add, forget, bulkDelete,  *)
(* promote and wipe requests ends in the store of running them one at a    *)
(* time, in the order the handlers were called.                            *)
(***************************************************************************)
Serializable ==
    /\ call.at = "statement" =>
          /\ memories = call.expected.memories
          /\ generated = call.expected.generated
          /\ call.tool = "add" =>
                /\ Len(profile_facts) + Len(call.facts) - (call.pc - 1)
                      = Len(call.expected.profile_facts)
                /\ profile_facts
                      = SubSeq(call.expected.profile_facts, 1, Len(profile_facts))
    /\ call.at = "responded" =>
          /\ memories = call.expected.memories
          /\ profile_facts = call.expected.profile_facts
          /\ generated = call.expected.generated

\* An add of three statements has responded on a store that held a memory
\* and static facts before it.
SerializableWitness ==
    /\ call.at = "responded" /\ call.tool = "add"
    /\ Len(call.facts) = 2
    /\ Len(memories) = 2
    /\ Len(profile_facts) = 4
    /\ profile_facts[1].fact_type = "static"
    /\ profile_facts[4].fact_type = "dynamic"

(***************************************************************************)
(* C29. Static and dynamic lists: a fact text is in both lists of a        *)
(* container's profile only when a memory with that text was added after   *)
(* the text was promoted.  No dynamic row of a text is stored before a     *)
(* static row of the same text and container, and a text in both lists has *)
(* a static row with a dynamic row stored after it.  As first stated (no   *)
(* text is ever in both lists): StaticDynamicDisjoint.                     *)
(***************************************************************************)
InBothLists(tag, F) ==
    /\ F \in Range(ProfileStatic(profile_facts, JsString(tag)))
    /\ F \in Range(ProfileDynamic(profile_facts, JsString(tag)))

SameFact(i, j) ==
    /\ profile_facts[i].container_tag = profile_facts[j].container_tag
    /\ profile_facts[i].fact = profile_facts[j].fact

StaticDynamicDisjoint ==
    \A tag \in Tags : \A F \in FactTexts : ~InBothLists(tag, F)

BothListsAfterReAdd ==
    /\ \A i, j \in 1..Len(profile_facts) :
          i < j /\ SameFact(i, j) /\ profile_facts[j].fact_type = "static"
             => profile_facts[i].fact_type = "static"
    /\ \A tag \in Tags : \A F \in FactTexts :
          InBothLists(tag, F) =>
             \E i, j \in 1..Len(profile_facts) :
                /\ i < j /\ SameFact(i, j)
                /\ profile_facts[i].container_tag = tag
                /\ profile_facts[i].fact = F
                /\ profile_facts[i].fact_type = "static"
                /\ profile_facts[j].fact_type = "dynamic"

\* "I prefer tea! I always use Vim" was added, "I prefer tea" promoted, and
\* the text added again: "I prefer tea" is in both lists, "I always use
\* Vim" in the dynamic list only.
BothListsAfterReAddWitness ==
    /\ Len(memories) = 2 /\ Len(profile_facts) = 4
    /\ call = NoCall
    /\ \A i \in 1..4 : profile_facts[i].container_tag = DefaultTag
    /\ InBothLists(DefaultTag, FactsTable[TeaAndVim][1])
    /\ ~InBothLists(DefaultTag, FactsTable[TeaAndVim][2])
    /\ FactsTable[TeaAndVim][2]
          \in Range(ProfileDynamic(profile_facts, JsString(DefaultTag)))
    /\ profile_facts[1].fact_type = "static"
    /\ profile_facts[3].fact_type = "dynamic"

(***************************************************************************)
(* C30. forgetByQuery reports truthfully under interleaving: it returns    *)
(* success = true only if its own forget request moved the memory it chose *)
(* from active to forgotten; without a search result it returns success =  *)
(* false and changes nothing; and when another request forgot or deleted   *)
(* the chosen memory between the search and the forget, it does not report *)
(* success.                                                                *)
(***************************************************************************)
ForgetByQueryReturns ==
    /\ call.method = "forgetByQuery"
    /\ call.at \in {"search", "forget"}
    /\ call'.at = "returned"

MovedToForgotten(id) ==
    \E i \in 1..Len(memories) :
       /\ memories[i].id = id
       /\ ~Forgotten(memories[i])
       /\ Len(memories') = Len(memories)
       /\ Forgotten(memories'[i])

\* The half that holds: no search result, no success and no change.
NoResultNoSuccess ==
    [][ForgetByQueryReturns /\ call.at = "search"
          => ~call'.success /\ memories' = memories]_vars

ForgetByQueryTruthful ==
    [][ForgetByQueryReturns
          => /\ call'.success => call.at = "forget" /\ MovedToForgotten(call.target)
             /\ call.at = "search" => ~call'.success /\ memories' = memories]_vars

(***************************************************************************)
(* C31. Client wipeAllMemories empties the container: when no other        *)
(* request writes to the container while it runs, afterwards documents/    *)
(* list for the client's container returns no memories and deletedCount is *)
(* the number of memories that were active in the container when it        *)
(* started, for any number of active memories (also more than the limit of *)
(* its list request).                                                      *)
(***************************************************************************)
WipeAllReturned == call.method = "wipeAllMemories" /\ call.at = "returned"

ContainerListed ==
    DocumentsList(JsArray(<<PluginTag>>), Undefined, Undefined).memories

\* The half that holds: a container of no more active memories than the
\* limit of the list request is emptied, and they are counted.
WipeAllEmptiesWithinLimit ==
    WipeAllReturned /\ call.active <= call.limit
       => ContainerListed = <<>> /\ call.deletedCount = call.active

\* The paging client empties the container whatever its page size.
PagedWipeEmptiesContainer ==
    WipeAllReturned /\ call.paged
       => ContainerListed = <<>> /\ call.deletedCount = call.active

\* More than one page was listed and more than one batch deleted.
PagedWipeManyPages ==
    WipeAllReturned /\ call.paged /\ call.page > 1 /\ call.next > call.limit

WipeAllEmptiesContainer ==
    WipeAllReturned
       => ContainerListed = <<>> /\ call.deletedCount = call.active

(***************************************************************************)
(* C32. Default container is used consistently: every endpoint resolves a  *)
(* missing container tag to "default", so a memory added with no container *)
(* tag is found by search, list and profile calls made with no container   *)
(* tag, is marked forgotten by a forget call made with no container tag,   *)
(* and its facts are promoted by a promote call made with no container     *)
(* tag.                                                                    *)
(***************************************************************************)
ActiveAt(i) == memories[i].forgotten_at = NULL

\* search, list and profile with no container tag find the active memories
\* added with none (search and profile: those the query scores above the
\* floor), and the profile lists their facts.
NoTagReadsFind ==
    /\ \A i \in 1..Len(memories) :
          ActiveAt(i) =>
             /\ memories[i].id \in
                   IdsOf(DocumentsList(Undefined, Undefined, Undefined).memories)
             /\ Exceeds(Similarity(QueryTea, memories[i].content), SearchFloor)
                  => memories[i].id \in
                       IdsOf(SearchMemories(JsString(QueryTea), Undefined,
                                            Undefined, Undefined, Undefined))
             /\ Exceeds(Similarity(QueryTea, memories[i].content), DefaultThreshold)
                  => memories[i].id \in
                       IdsOf(ProfileSearch(Undefined, JsString(QueryTea), Undefined))
    /\ \A k \in 1..Len(profile_facts) :
          profile_facts[k].fact \in
             Range(ProfileStatic(profile_facts, Undefined))
                \cup Range(ProfileDynamic(profile_facts, Undefined))

\* A forget by id with no container tag marks the memory forgotten.
NoTagForgetMarks ==
    \A i \in 1..Len(memories) :
       ActiveAt(i) =>
          ForgetOutcome(Undefined, JsString(memories[i].id), Undefined)
             .memories[i].forgotten_at # NULL

\* A promote with no container tag makes the fact static.
NoTagPromotePromotes ==
    \A k \in 1..Len(profile_facts) :
       PromoteOutcome(Undefined, JsString(profile_facts[k].fact))
          .profile_facts[k].fact_type = "static"

\* What the code does with them: forget and promote with no container tag
\* answer 500 and change nothing, whatever else the request holds.
NoTagWritesRejected ==
    /\ \A args \in ForgetArgs(DefaultContainerTexts) :
          \A out \in {ForgetOutcome(Undefined, args[1], args[2])} :
             /\ out.memories = memories
             /\ out.response.status \in {400, 500}
    /\ \A fact \in FactInputs :
          \A out \in {PromoteOutcome(Undefined, fact)} :
             /\ out.profile_facts = profile_facts
             /\ out.response.status = 500

\* An active memory with a dynamic fact, added with no container tag.
NoTagMemoryWithFact ==
    \E i \in 1..Len(memories), k \in 1..Len(profile_facts) :
       /\ ActiveAt(i)
       /\ memories[i].container_tag = DefaultTag
       /\ Exceeds(Similarity(QueryTea, memories[i].content), DefaultThreshold)
       /\ profile_facts[k].fact_type = "dynamic"

DefaultContainerConsistent ==
    NoTagReadsFind /\ NoTagForgetMarks /\ NoTagPromotePromotes

====
